---- MODULE Spec2Model ----
(***************************************************************************)
(* Stabilizer dataflow analysis (src/src/stabilizer_dataflow.rs) over the  *)
(* Clifford tableau of src/src/tableau.rs.                                 *)
(*                                                                         *)
(* Specifications:                                                         *)
(*   Spec      the traversal run_dfg of one region: the region graph is   *)
(*             drawn at Init, `analysis` is the StabilizerDataflow value,  *)
(*             each step processes one node the topological iterator may  *)
(*             yield next.                                                 *)
(*   SpecAny   Spec on regions a hugr that was not validated can hold.     *)
(*   SpecTab   the Tableau append operations as pure functions on a        *)
(*             tableau drawn at Init.                                      *)
(*   SpecJoin  the step of run_conditional that takes a further case's     *)
(*             tableau into the summary, as a pure function on two         *)
(*             commuting tableaux over the same columns drawn at Init.     *)
(*   SpecStack the recursion of run_dfg over the hierarchy of a module.    *)
(*   SpecRows  row multiplication, row-echelon reduction and projection    *)
(*             of a tableau of rows drawn at Init.                         *)
(*   SpecCirc  Tableau::to_circ on the tableaux the append operations      *)
(*             reach from Tableau::new.                                    *)
(***************************************************************************)
EXTENDS Integers, Sequences, FiniteSets, TLC

VARIABLES
    g,          \* the region: nodes, operations, qubit ports, qubit edges
    done,       \* nodes the topological iterator has yielded so far
    last,       \* the node yielded last (0: none yet)
    pc,         \* "run" | "returned" | "aborted" (a panic: unwrap on None);
                \* SpecTab: "tab" | "applied"; SpecJoin: "join" | "joined";
                \* SpecRows: "rows" | "applied"; SpecCirc: "circ" | "circ_done"
    analysis,   \* the StabilizerDataflow value of run_dfg
    fun_op,     \* the FunctionOpacity run_dfg was called with
    tab,        \* SpecTab, SpecRows, SpecCirc: the tableau the operations act on
    tab_before, \* SpecTab, SpecRows: the tableau before the operation applied last
    gate,       \* the operation applied last (SpecCirc: with the list to_circ returned)
    case_tab,   \* SpecJoin: the tableau of the case joined into the summary `tab`
    stack       \* SpecStack: the region analyses run_dfg has on the call stack

vars == <<g, done, last, pc, analysis, fun_op, tab, tab_before, gate, case_tab, stack>>

(***************************************************************************)
(* Bounds                                                                  *)
(***************************************************************************)
\* longest gate list of an enumerated region
MaxGates == 1
\* SpecTab: most columns / rows of the tableau drawn at Init
MaxTabQubits == 2
MaxTabRows == 1
\* SpecJoin: columns / most rows of the two tableaux drawn at Init
JoinQubits == 2
MaxJoinRows == 1

(***************************************************************************)
(* BitVector (crate::bit_vector, external): a fixed-width boolean vector,  *)
(* bit i at index i, for i in 0..len-1.                                    *)
(***************************************************************************)
BvNew(n) == [i \in 0..(n - 1) |-> FALSE]
BvLen(a) == Cardinality(DOMAIN a)
BvXor(a, b) == [i \in DOMAIN a |-> a[i] # b[i]]
BvAnd(a, b) == [i \in DOMAIN a |-> a[i] /\ b[i]]
BvNegate(a) == [i \in DOMAIN a |-> ~a[i]]
BvXorBit(a, k) == [i \in DOMAIN a |-> IF i = k THEN ~a[i] ELSE a[i]]
BvAll(n) == [0..(n - 1) -> BOOLEAN]

(***************************************************************************)
(* Tableau (tableau.rs): column-major.  z[q] and x[q] are bit vectors over *)
(* the generators (rows); bit r of z[q] is the Z component of row r on     *)
(* column q; signs holds one bit per row.                                  *)
(***************************************************************************)
init_z(nb_qubits) ==
    [q \in 0..(nb_qubits - 1) |-> BvXorBit(BvNew(2 * nb_qubits), q)]

init_x(nb_qubits) ==
    [q \in 0..(nb_qubits - 1) |-> BvXorBit(BvNew(2 * nb_qubits), q + nb_qubits)]

TableauNew(nb_qubits) ==
    [nb_qubits |-> nb_qubits,
     z |-> init_z(nb_qubits),
     x |-> init_x(nb_qubits),
     signs |-> BvNew(2 * nb_qubits)]

append_x(t, qubit) == [t EXCEPT !.signs = BvXor(t.signs, t.z[qubit])]

append_z(t, qubit) == [t EXCEPT !.signs = BvXor(t.signs, t.x[qubit])]

\* append_v with the sign computed from the bits after the update
append_v_sign_after_update(t, qubit) ==
    LET x1 == BvXor(t.x[qubit], t.z[qubit])
        a == BvAnd(BvNegate(x1), t.z[qubit])
    IN [t EXCEPT !.signs = BvXor(t.signs, a),
                 !.x[qubit] = x1]

append_v(t, qubit) ==
    LET a == BvAnd(BvNegate(t.x[qubit]), t.z[qubit])
    IN [t EXCEPT !.signs = BvXor(t.signs, a),
                 !.x[qubit] = BvXor(t.x[qubit], t.z[qubit])]

append_s(t, qubit) ==
    LET a == BvAnd(t.z[qubit], t.x[qubit])
    IN [t EXCEPT !.signs = BvXor(t.signs, a),
                 !.z[qubit] = BvXor(t.z[qubit], t.x[qubit])]

append_h(t, qubit) == append_s(append_v(append_s(t, qubit), qubit), qubit)

\* append_cx without the negation of z[q0] in the sign mask
append_cx_without_negate(t, qubits) ==
    LET q0 == qubits[1]
        q1 == qubits[2]
        a == BvAnd(BvAnd(BvXor(t.z[q0], t.x[q1]), t.z[q1]), t.x[q0])
        t1 == [t EXCEPT !.signs = BvXor(t.signs, a)]
        t2 == [t1 EXCEPT !.z[q0] = BvXor(t1.z[q0], t1.z[q1])]
    IN [t2 EXCEPT !.x[q1] = BvXor(t2.x[q1], t2.x[q0])]

append_cx(t, qubits) ==
    LET q0 == qubits[1]
        q1 == qubits[2]
        a == BvAnd(BvAnd(BvXor(BvNegate(t.z[q0]), t.x[q1]), t.z[q1]), t.x[q0])
        t1 == [t EXCEPT !.signs = BvXor(t.signs, a)]
        t2 == [t1 EXCEPT !.z[q0] = BvXor(t1.z[q0], t1.z[q1])]
    IN [t2 EXCEPT !.x[q1] = BvXor(t2.x[q1], t2.x[q0])]

append_cz(t, qubits) ==
    LET q0 == qubits[1]
        q1 == qubits[2]
        t1 == append_s(t, q0)
        t2 == append_s(t1, q1)
        t3 == append_cx(t2, qubits)
        t4 == append_s(t3, q1)
        t5 == append_z(t4, q1)
    IN append_cx(t5, qubits)

\* The part of Tableau the dataflow code calls but tableau.rs does not hold:
\* add_col appends an all-zero column and returns its index (the old width);
\* nb_stabs is the number of rows.
add_col(t) ==
    [nb_qubits |-> t.nb_qubits + 1,
     z |-> [q \in 0..t.nb_qubits |-> IF q < t.nb_qubits THEN t.z[q] ELSE BvNew(BvLen(t.signs))],
     x |-> [q \in 0..t.nb_qubits |-> IF q < t.nb_qubits THEN t.x[q] ELSE BvNew(BvLen(t.signs))],
     signs |-> t.signs]

nb_stabs(t) == BvLen(t.signs)

\* Row r of a tableau as a Pauli product (z, x over the columns, sign).
stabs_get(t, r) ==
    [z |-> [q \in 0..(t.nb_qubits - 1) |-> t.z[q][r]],
     x |-> [q \in 0..(t.nb_qubits - 1) |-> t.x[q][r]],
     sign |-> t.signs[r]]

(***************************************************************************)
(* Finite maps (HashMap): functions whose domain is the key set.           *)
(***************************************************************************)
EmptyMap == <<>>
Insert(m, k, v) == [y \in (DOMAIN m) \cup {k} |-> IF y = k THEN v ELSE m[y]]
Remove(m, k) == [y \in (DOMAIN m) \ {k} |-> m[y]]
Values(m) == {m[k] : k \in DOMAIN m}

(***************************************************************************)
(* The host graph of one region (hugr, external).  Nodes are 1..g.n; node  *)
(* 1 is the Input sentinel and node 2 the Output sentinel, as the hugr     *)
(* builder creates them.  g.qin[v] / g.qout[v] list the qubit-typed value  *)
(* ports of v in port order (in_value_types / out_value_types filtered by  *)
(* qb_t); g.link[<<v, p>>] is single_linked_input(v, p) of a qubit output. *)
(* Qubits are linear: every qubit output port is linked exactly once.      *)
(***************************************************************************)
InputNode == 1
OutputNode == 2

CliffordOps == {"H", "S", "Sdg", "X", "Y", "Z", "V", "Vdg", "CX", "CY", "CZ"}
BoundaryOps1 == {"T", "Tdg", "Rz", "Measure", "Rx", "Ry"}
\* every TketOp the regions use; TryQAlloc has no qubit port (its output is a Sum)
TketOps == CliffordOps \cup BoundaryOps1 \cup
           {"CRz", "Toffoli", "MeasureFree", "QAlloc", "QFree", "Reset", "TryQAlloc"}
\* extension operations that are no TketOp (from_extension_op fails)
ExtOps == {"Ext11"}
\* any other OpType (OpaqueOp as in test_opaque, ...), by its qubit ports
OtherOps == {"Op11", "OpC1", "Op21"}

\* qubit-typed input ports of an operation, in port order
QIn(op) ==
    CASE op \in {"CX", "CY", "CZ", "CRz", "Op21"} -> <<0, 1>>
      [] op = "Toffoli" -> <<0, 1, 2>>
      [] op \in {"QAlloc", "TryQAlloc"} -> <<>>
      [] op \in {"OpC1", "Conditional"} -> <<1>>
      [] op \in {"Conditional2", "TailLoop"} -> <<1, 2>>
      [] OTHER -> <<0>>

\* qubit-typed output ports of an operation, in port order
QOut(op) ==
    CASE op \in {"CX", "CY", "CZ", "CRz", "Conditional2", "TailLoop"} -> <<0, 1>>
      [] op = "Toffoli" -> <<0, 1, 2>>
      [] op \in {"MeasureFree", "QFree", "TryQAlloc"} -> <<>>
      [] op = "OpC1" -> <<1>>
      [] OTHER -> <<0>>

\* A region is written as the builder calls of the tests write it: the input
\* signature ("q" a qubit, "c" anything else) and a list of gates, each on
\* qubit lines.  Line k < K is the k-th qubit input; a gate's j-th qubit
\* output continues the line of its j-th qubit input, or opens a new line;
\* the lines alive at the end are the region's outputs, in line order.
InputQPorts(sig) ==
    LET idx == {i \in 1..Len(sig) : sig[i] = "q"}
        F[S \in SUBSET idx] ==
            IF S = {} THEN <<>>
            ELSE LET m == CHOOSE a \in S : \A b \in S : a <= b
                 IN <<m - 1>> \o F[S \ {m}]
    IN F[idx]

SortedSeq(S) ==
    LET F[T \in SUBSET S] ==
            IF T = {} THEN <<>>
            ELSE LET m == CHOOSE a \in T : \A b \in T : a <= b
                 IN <<m>> \o F[T \ {m}]
    IN F[S]

OutLine(acc, gt, j) ==
    IF j <= Len(gt.ls) THEN gt.ls[j] ELSE acc.next + (j - Len(gt.ls) - 1)

RECURSIVE BuildAcc(_, _, _)
BuildAcc(sig, gates, i) ==
    IF i = 0
    THEN LET ports == InputQPorts(sig)
         IN [cur |-> [l \in 0..(Len(ports) - 1) |-> <<InputNode, ports[l + 1]>>],
             link |-> EmptyMap,
             next |-> Len(ports)]
    ELSE LET acc == BuildAcc(sig, gates, i - 1)
             gt == gates[i]
             node == 2 + i
             ins == QIn(gt.op)
             outs == QOut(gt.op)
             used == {gt.ls[j] : j \in 1..Len(gt.ls)}
             made == {OutLine(acc, gt, j) : j \in 1..Len(outs)}
         IN [cur |-> [l \in ((DOMAIN acc.cur) \ used) \cup made |->
                        IF l \in made
                        THEN <<node, outs[CHOOSE j \in 1..Len(outs) : OutLine(acc, gt, j) = l]>>
                        ELSE acc.cur[l]],
             link |-> [k \in (DOMAIN acc.link) \cup {acc.cur[l] : l \in used} |->
                        IF k \in DOMAIN acc.link THEN acc.link[k]
                        ELSE <<node, ins[CHOOSE j \in 1..Len(gt.ls) : acc.cur[gt.ls[j]] = k]>>],
             next |-> acc.next + Cardinality(made \ used)]

Live(sig, gates) == DOMAIN BuildAcc(sig, gates, Len(gates)).cur

Build(sig, gates) ==
    LET acc == BuildAcc(sig, gates, Len(gates))
        outs == SortedSeq(DOMAIN acc.cur)
        n == 2 + Len(gates)
    IN [n |-> n,
        op |-> [v \in 1..n |-> IF v = InputNode THEN "Input"
                               ELSE IF v = OutputNode THEN "Output"
                               ELSE gates[v - 2].op],
        qin |-> [v \in 1..n |-> IF v = InputNode THEN <<>>
                                ELSE IF v = OutputNode THEN [j \in 1..Len(outs) |-> j - 1]
                                ELSE QIn(gates[v - 2].op)],
        qout |-> [v \in 1..n |-> IF v = InputNode THEN InputQPorts(sig)
                                 ELSE IF v = OutputNode THEN <<>>
                                 ELSE QOut(gates[v - 2].op)],
        link |-> [k \in (DOMAIN acc.link) \cup {acc.cur[l] : l \in DOMAIN acc.cur} |->
                    IF k \in DOMAIN acc.link THEN acc.link[k]
                    ELSE <<OutputNode, (CHOOSE j \in 1..Len(outs) : acc.cur[outs[j]] = k) - 1>>]]

\* injective argument tuples of a gate with a qubit inputs over the live lines
ArgTuples(live, a) ==
    CASE a = 0 -> {<<>>}
      [] a = 1 -> {<<l>> : l \in live}
      [] a = 2 -> {t \in {<<l1, l2>> : l1 \in live, l2 \in live} : t[1] # t[2]}
      [] OTHER -> {t \in {<<l1, l2, l3>> : l1 \in live, l2 \in live, l3 \in live} :
                      t[1] # t[2] /\ t[1] # t[3] /\ t[2] # t[3]}

GateOps == TketOps \cup ExtOps \cup OtherOps

GatesAfter(sig, gates) ==
    LET live == Live(sig, gates)
    IN UNION {{[op |-> o, ls |-> ls] : ls \in ArgTuples(live, Len(QIn(o)))} : o \in GateOps}

RECURSIVE GateLists(_, _)
GateLists(sig, k) ==
    IF k = 0 THEN {<<>>}
    ELSE LET P == GateLists(sig, k - 1)
         IN P \cup UNION {{Append(p, gt) : gt \in GatesAfter(sig, p)} :
                             p \in {q \in P : Len(q) = k - 1}}

\* input signatures of the enumerated regions (endo_sig(vec![]) and
\* [usize, qb, qb] are those of test_empty_analysis and test_identity_analysis)
Signatures == {<<>>, <<"q">>, <<"c", "q", "q">>}

G(o, ls) == [op |-> o, ls |-> ls]

\* the regions the tests of stabilizer_dataflow.rs build
test_bell_state == [sig |-> <<>>,
    gates |-> <<G("QAlloc", <<>>), G("QAlloc", <<>>), G("H", <<0>>), G("CX", <<0, 1>>)>>]

test_opaque == [sig |-> <<>>,
    gates |-> <<G("QAlloc", <<>>), G("QAlloc", <<>>), G("H", <<0>>), G("CX", <<0, 1>>),
                G("Op11", <<1>>), G("H", <<1>>), G("CX", <<0, 1>>)>>]

test_clifford_gates == [sig |-> <<"q", "q", "q">>,
    gates |-> <<G("H", <<0>>), G("S", <<0>>), G("V", <<0>>), G("S", <<0>>),
                G("CX", <<0, 1>>), G("H", <<1>>), G("CZ", <<0, 1>>), G("H", <<1>>),
                G("CX", <<0, 1>>), G("S", <<1>>), G("CY", <<0, 1>>), G("Sdg", <<1>>),
                G("S", <<0>>), G("Sdg", <<0>>), G("V", <<1>>), G("Vdg", <<1>>),
                G("Z", <<0>>), G("X", <<1>>), G("Y", <<2>>)>>]

test_nonclifford == [sig |-> <<"q", "q", "q">>,
    gates |-> <<G("T", <<0>>), G("Tdg", <<0>>), G("Rz", <<0>>), G("Measure", <<0>>),
                G("Ry", <<1>>), G("Rx", <<2>>), G("CRz", <<0, 1>>),
                G("Toffoli", <<0, 1, 2>>)>>]

test_mixed_clifford == [sig |-> <<"q", "q">>,
    gates |-> <<G("QAlloc", <<>>), G("CX", <<0, 1>>), G("Reset", <<0>>),
                G("MeasureFree", <<1>>), G("H", <<0>>), G("CX", <<0, 2>>),
                G("QFree", <<2>>)>>]

TestRegions == {test_bell_state, test_opaque, test_clifford_gates, test_nonclifford,
                test_mixed_clifford}

Regions ==
    {Build(sig_gl[1], sig_gl[2]) :
        sig_gl \in UNION {{<<sig, gl>> : gl \in GateLists(sig, MaxGates)} : sig \in Signatures}}
    \cup {Build(t.sig, t.gates) : t \in TestRegions}

(***************************************************************************)
(* StabilizerDataflow (stabilizer_dataflow.rs).  `a` is the analysis       *)
(* value, `gr` the region, `node` the node being processed.                *)
(***************************************************************************)
Succ(gr, node, port) == gr.link[<<node, port>>]

\* StabilizerDataflow::new: two columns per qubit input, the first for
\* in_cols, the second for the frontier entry of the input's successor.
new(gr) ==
    LET ports == gr.qout[InputNode]
        n_in_qubits == Len(ports)
    IN [tab |-> TableauNew(2 * n_in_qubits),
        in_cols |-> [p \in {ports[k] : k \in 1..n_in_qubits} |->
                        2 * ((CHOOSE k \in 1..n_in_qubits : ports[k] = p) - 1)],
        out_cols |-> EmptyMap,
        frontier_cols |-> [key \in {Succ(gr, InputNode, ports[k]) : k \in 1..n_in_qubits} |->
                        2 * ((CHOOSE k \in 1..n_in_qubits :
                                 Succ(gr, InputNode, ports[k]) = key) - 1) + 1],
        internal_in_cols |-> EmptyMap,
        internal_out_cols |-> EmptyMap,
        nested_in_cols |-> EmptyMap,
        nested_out_cols |-> EmptyMap,
        nested_analysis |-> EmptyMap]

\* apply_opaque, second loop: a column pair per qubit output, the first j of them
RECURSIVE apply_opaque_outputs(_, _, _, _)
apply_opaque_outputs(a, gr, node, j) ==
    IF j = 0 THEN a
    ELSE LET b == apply_opaque_outputs(a, gr, node, j - 1)
             p == gr.qout[node][j]
             col_out == b.tab.nb_qubits
             col_front == b.tab.nb_qubits + 1
         IN [b EXCEPT !.tab = add_col(add_col(b.tab)),
                      !.internal_out_cols = Insert(@, <<node, p>>, col_out),
                      !.frontier_cols = Insert(@, Succ(gr, node, p), col_front)]

\* apply_opaque, first loop: every qubit input moves from frontier_cols to
\* internal_in_cols
apply_opaque_inputs(a, gr, node) ==
    LET keys == {<<node, gr.qin[node][j]>> : j \in 1..Len(gr.qin[node])}
    IN [a EXCEPT !.frontier_cols = [k \in (DOMAIN a.frontier_cols) \ keys |-> a.frontier_cols[k]],
                 !.internal_in_cols = [k \in (DOMAIN a.internal_in_cols) \cup keys |->
                                          IF k \in keys THEN a.frontier_cols[k]
                                          ELSE a.internal_in_cols[k]]]

apply_opaque(a, gr, node) ==
    apply_opaque_outputs(apply_opaque_inputs(a, gr, node), gr, node, Len(gr.qout[node]))

\* The Tableau calls of the Clifford arms of apply_quantum_gate, on the
\* frontier column(s) cols of the gate's qubit(s).
clifford_append(t, op, cols) ==
    CASE op = "H" -> append_h(t, cols[1])
      [] op = "CX" -> append_cx(t, <<cols[1], cols[2]>>)
      [] op = "CY" -> append_s(append_cx(append_z(append_s(t, cols[2]), cols[2]),
                                         <<cols[1], cols[2]>>), cols[2])
      [] op = "CZ" -> append_cz(t, <<cols[1], cols[2]>>)
      [] op = "S" -> append_s(t, cols[1])
      [] op = "Sdg" -> append_z(append_s(t, cols[1]), cols[1])
      [] op = "X" -> append_x(t, cols[1])
      [] op = "Y" -> append_z(append_x(t, cols[1]), cols[1])
      [] op = "Z" -> append_z(t, cols[1])
      [] op = "V" -> append_v(t, cols[1])
      [] op = "Vdg" -> append_x(append_v(t, cols[1]), cols[1])

\* the frontier column of input port p, taken out of frontier_cols
Col(a, node, p) == a.frontier_cols[<<node, p>>]
Take(a, node, p) == [a EXCEPT !.frontier_cols = Remove(@, <<node, p>>)]
Publish(a, gr, node, p, col) ==
    [a EXCEPT !.frontier_cols = Insert(@, Succ(gr, node, p), col)]

gate_H(a, gr, node) ==
    LET col == Col(a, node, 0)
        b == Take(a, node, 0)
    IN Publish([b EXCEPT !.tab = clifford_append(@, "H", <<col>>)], gr, node, 0, col)

\* the CX arm publishing each column under the other output's successor
gate_CX_crossed(a, gr, node) ==
    LET col0 == Col(a, node, 0)
        col1 == Col(a, node, 1)
        b == Take(Take(a, node, 0), node, 1)
        c == [b EXCEPT !.tab = clifford_append(@, "CX", <<col0, col1>>)]
    IN Publish(Publish(c, gr, node, 0, col1), gr, node, 1, col0)

gate_CX(a, gr, node) ==
    LET col0 == Col(a, node, 0)
        col1 == Col(a, node, 1)
        b == Take(Take(a, node, 0), node, 1)
        c == [b EXCEPT !.tab = clifford_append(@, "CX", <<col0, col1>>)]
    IN Publish(Publish(c, gr, node, 0, col0), gr, node, 1, col1)

gate_CY(a, gr, node) ==
    LET col0 == Col(a, node, 0)
        col1 == Col(a, node, 1)
        b == Take(Take(a, node, 0), node, 1)
        c == [b EXCEPT !.tab = clifford_append(@, "CY", <<col0, col1>>)]
    IN Publish(Publish(c, gr, node, 0, col0), gr, node, 1, col1)

gate_CZ(a, gr, node) ==
    LET col0 == Col(a, node, 0)
        col1 == Col(a, node, 1)
        b == Take(Take(a, node, 0), node, 1)
        c == [b EXCEPT !.tab = clifford_append(@, "CZ", <<col0, col1>>)]
    IN Publish(Publish(c, gr, node, 0, col0), gr, node, 1, col1)

\* one (col_in, col_out, col_front) triple per qubit of a non-Clifford
\* boundary: the columns col_out are allocated first, then the col_front
gate_boundary(a, gr, node, nq) ==
    LET old == a.tab.nb_qubits
        ports == 0..(nq - 1)
        F[j \in 0..(2 * nq)] == IF j = 0 THEN a.tab ELSE add_col(F[j - 1])
    IN [a EXCEPT !.tab = F[2 * nq],
                 !.frontier_cols =
                     [k \in ((DOMAIN a.frontier_cols) \ {<<node, p>> : p \in ports})
                            \cup {Succ(gr, node, p) : p \in ports} |->
                         IF \E p \in ports : Succ(gr, node, p) = k
                         THEN old + nq + (CHOOSE p \in ports : Succ(gr, node, p) = k)
                         ELSE a.frontier_cols[k]],
                 !.internal_in_cols =
                     [k \in (DOMAIN a.internal_in_cols) \cup {<<node, p>> : p \in ports} |->
                         IF k \in {<<node, p>> : p \in ports} THEN a.frontier_cols[k]
                         ELSE a.internal_in_cols[k]],
                 !.internal_out_cols =
                     [k \in (DOMAIN a.internal_out_cols) \cup {<<node, p>> : p \in ports} |->
                         IF k \in {<<node, p>> : p \in ports} THEN old + k[2]
                         ELSE a.internal_out_cols[k]]]

gate_CRz(a, gr, node) == gate_boundary(a, gr, node, 2)

gate_T_Tdg_Rz_Measure(a, gr, node) == gate_boundary(a, gr, node, 1)

gate_S(a, gr, node) ==
    LET col == Col(a, node, 0)
        b == Take(a, node, 0)
    IN Publish([b EXCEPT !.tab = clifford_append(@, "S", <<col>>)], gr, node, 0, col)

gate_Sdg(a, gr, node) ==
    LET col == Col(a, node, 0)
        b == Take(a, node, 0)
    IN Publish([b EXCEPT !.tab = clifford_append(@, "Sdg", <<col>>)], gr, node, 0, col)

gate_X(a, gr, node) ==
    LET col == Col(a, node, 0)
        b == Take(a, node, 0)
    IN Publish([b EXCEPT !.tab = clifford_append(@, "X", <<col>>)], gr, node, 0, col)

gate_Y(a, gr, node) ==
    LET col == Col(a, node, 0)
        b == Take(a, node, 0)
    IN Publish([b EXCEPT !.tab = clifford_append(@, "Y", <<col>>)], gr, node, 0, col)

gate_Z(a, gr, node) ==
    LET col == Col(a, node, 0)
        b == Take(a, node, 0)
    IN Publish([b EXCEPT !.tab = clifford_append(@, "Z", <<col>>)], gr, node, 0, col)

gate_Rx(a, gr, node) == gate_boundary(a, gr, node, 1)

gate_Ry(a, gr, node) == gate_boundary(a, gr, node, 1)

gate_Toffoli(a, gr, node) == gate_boundary(a, gr, node, 3)

gate_MeasureFree(a, gr, node) ==
    LET col_in == Col(a, node, 0)
        b == Take(a, node, 0)
    IN [b EXCEPT !.internal_in_cols = Insert(@, <<node, 0>>, col_in)]

gate_QAlloc(a, gr, node) ==
    LET col_front == a.tab.nb_qubits
    IN Publish([a EXCEPT !.tab = add_col(@)], gr, node, 0, col_front)

gate_QFree(a, gr, node) == Take(a, node, 0)

gate_Reset(a, gr, node) ==
    LET col_in == Col(a, node, 0)
        b == Take(a, node, 0)
    IN Publish(b, gr, node, 0, col_in)

gate_V(a, gr, node) ==
    LET col == Col(a, node, 0)
        b == Take(a, node, 0)
    IN Publish([b EXCEPT !.tab = clifford_append(@, "V", <<col>>)], gr, node, 0, col)

gate_Vdg(a, gr, node) ==
    LET col == Col(a, node, 0)
        b == Take(a, node, 0)
    IN Publish([b EXCEPT !.tab = clifford_append(@, "Vdg", <<col>>)], gr, node, 0, col)

apply_quantum_gate(a, gr, node, op) ==
    CASE op = "H" -> gate_H(a, gr, node)
      [] op = "CX" -> gate_CX(a, gr, node)
      [] op = "CY" -> gate_CY(a, gr, node)
      [] op = "CZ" -> gate_CZ(a, gr, node)
      [] op = "CRz" -> gate_CRz(a, gr, node)
      [] op \in {"T", "Tdg", "Rz", "Measure"} -> gate_T_Tdg_Rz_Measure(a, gr, node)
      [] op = "S" -> gate_S(a, gr, node)
      [] op = "Sdg" -> gate_Sdg(a, gr, node)
      [] op = "X" -> gate_X(a, gr, node)
      [] op = "Y" -> gate_Y(a, gr, node)
      [] op = "Z" -> gate_Z(a, gr, node)
      [] op = "Rx" -> gate_Rx(a, gr, node)
      [] op = "Ry" -> gate_Ry(a, gr, node)
      [] op = "Toffoli" -> gate_Toffoli(a, gr, node)
      [] op = "MeasureFree" -> gate_MeasureFree(a, gr, node)
      [] op = "QAlloc" -> gate_QAlloc(a, gr, node)
      [] op = "QFree" -> gate_QFree(a, gr, node)
      [] op = "Reset" -> gate_Reset(a, gr, node)
      [] op = "V" -> gate_V(a, gr, node)
      [] op = "Vdg" -> gate_Vdg(a, gr, node)
      [] OTHER -> apply_opaque(a, gr, node)

\* The Output arm of run_dfg: every frontier entry, whatever its node, goes to
\* out_cols under its port, and the frontier is emptied.  The HashMap is
\* iterated in no fixed order: when two entries share a port either may be
\* the one out_cols keeps.
output_results(a) ==
    LET ports == {k[2] : k \in DOMAIN a.frontier_cols}
        cands(p) == {a.frontier_cols[k] : k \in {y \in DOMAIN a.frontier_cols : y[2] = p}}
        picks == {c \in [ports -> Values(a.frontier_cols)] : \A p \in ports : c[p] \in cands(p)}
    IN {[a EXCEPT !.out_cols = [p \in (DOMAIN a.out_cols) \cup ports |->
                                    IF p \in ports THEN c[p] ELSE a.out_cols[p]],
                  !.frontier_cols = EmptyMap] : c \in picks}

\* hugr.single_linked_input(node, port) is None: the port is linked to no
\* input port (no entry in gr.link) or to more than one (gr.multi, a field
\* only regions with such a port have)
Forked(gr) == IF "multi" \in DOMAIN gr THEN gr.multi ELSE {}
NoUniqueSuccessor(gr, node) ==
    \E j \in 1..Len(gr.qout[node]) :
       LET k == <<node, gr.qout[node][j]>>
       IN k \notin DOMAIN gr.link \/ k \in Forked(gr)

\* frontier_cols.remove(..).unwrap() panics when the entry is missing,
\* single_linked_input(..).unwrap() when the successor is not unique
Panics(a, gr, node) ==
    \/ \E j \in 1..Len(gr.qin[node]) : <<node, gr.qin[node][j]>> \notin DOMAIN a.frontier_cols
    \/ NoUniqueSuccessor(gr, node)

\* StabilizerDataflow::new panics unless the region has exactly one Input
\* child (gr.inputs, a field only regions with another number have) and
\* each of its qubit outputs a unique successor
InputCount(gr) == IF "inputs" \in DOMAIN gr THEN gr.inputs ELSE 1
NewPanics(gr) == InputCount(gr) # 1 \/ NoUniqueSuccessor(gr, InputNode)

(***************************************************************************)
(* Hierarchical nodes.  A host region holds, next to the fields of Build,  *)
(* g.sub[v]: the regions nested under the hierarchical node v (the Case    *)
(* regions of a Conditional in case order, the body of a TailLoop, the     *)
(* FuncDefn a Call is linked to).  Nested regions hold no hierarchical     *)
(* node.  Node ids are global in a hugr: node k of the i-th region nested  *)
(* under v is NodeId(v, i, k), and NodeId(v, i, 0) is the node that        *)
(* parents that region (the Case node, the FuncDefn node).                 *)
(***************************************************************************)
FunctionOpacity == {"Opaque", "Boundary", "Inline"}

ConditionalOps == {"Conditional", "Conditional2"}
HierOps == ConditionalOps \cup {"TailLoop", "Call"}

NodeId(v, i, k) == 100 * v + 10 * i + k

\* hugr.node_inputs(node): every input port in port order.  Port 0 of a
\* Conditional is the Sum-typed discriminator, port 0 of the TailLoop of
\* test_loop_null is its just_inputs bool and port 3 its pass-through bool;
\* the last input port of a Call is its static function input.
node_inputs(gr, node) ==
    CASE gr.op[node] = "Conditional" -> <<0, 1>>
      [] gr.op[node] = "Conditional2" -> <<0, 1, 2>>
      [] gr.op[node] = "TailLoop" -> <<0, 1, 2, 3>>
      [] gr.op[node] = "Call" -> <<0, 1>>

\* hugr.node_outputs(node): every output port in port order
node_outputs(gr, node) ==
    CASE gr.op[node] = "Conditional" -> <<0>>
      [] gr.op[node] = "Conditional2" -> <<0, 1>>
      [] gr.op[node] = "TailLoop" -> <<0, 1, 2>>
      [] gr.op[node] = "Call" -> <<0>>

\* hugr.children(node): the Case nodes of a Conditional; the Input, the
\* Output and the operations of the loop body for a TailLoop, which is itself
\* the dataflow parent of its body (test_loop_null adds the body's gates to
\* the loop builder)
children(gr, node) ==
    IF gr.op[node] \in ConditionalOps
    THEN {NodeId(node, i, 0) : i \in 1..Len(gr.sub[node])}
    ELSE IF gr.op[node] = "TailLoop"
    THEN {NodeId(node, 1, k) : k \in 1..gr.sub[node][1].n}
    ELSE {}

\* the TailLoop operation of test_loop_null
as_tail_loop(gr, node) ==
    [just_inputs |-> <<"c">>, just_outputs |-> <<>>, rest |-> <<"q", "q", "c">>]

\* Tableau::add_row (not in tableau.rs): appends one generator
add_row(t, row) ==
    LET r == BvLen(t.signs)
        ext(v, b) == [i \in 0..r |-> IF i < r THEN v[i] ELSE b]
    IN [nb_qubits |-> t.nb_qubits,
        z |-> [q \in 0..(t.nb_qubits - 1) |-> ext(t.z[q], row.z[q])],
        x |-> [q \in 0..(t.nb_qubits - 1) |-> ext(t.x[q], row.x[q])],
        signs |-> ext(t.signs, row.sign)]

RECURSIVE add_cols(_, _)
add_cols(t, k) == IF k = 0 THEN t ELSE add_col(add_cols(t, k - 1))

\* the analysis value with an empty tableau and empty maps
empty_analysis ==
    [tab |-> TableauNew(0),
     in_cols |-> EmptyMap,
     out_cols |-> EmptyMap,
     frontier_cols |-> EmptyMap,
     internal_in_cols |-> EmptyMap,
     internal_out_cols |-> EmptyMap,
     nested_in_cols |-> EmptyMap,
     nested_out_cols |-> EmptyMap,
     nested_analysis |-> EmptyMap]

\* a call that panicked returns nothing
Panicked == [ok |-> FALSE, a |-> empty_analysis]
Returned(a) == [ok |-> TRUE, a |-> a]

PredsIn(gr, v) == {k[1] : k \in {y \in DOMAIN gr.link : gr.link[y][1] = v}}

\* run_dfg on a nested region: every result the traversal can return, over
\* the orders pv::Topo may yield; `dn` are the nodes yielded so far
RECURSIVE run_dfg_from(_, _, _)
run_dfg_from(gr, a, dn) ==
    IF dn = 1..gr.n THEN {Returned(a)}
    ELSE UNION {
           IF gr.op[v] = "Output"
           THEN UNION {run_dfg_from(gr, b, dn \cup {v}) : b \in output_results(a)}
           ELSE IF Panics(a, gr, v) THEN {Panicked}
           ELSE IF gr.op[v] \in TketOps
           THEN run_dfg_from(gr, apply_quantum_gate(a, gr, v, gr.op[v]), dn \cup {v})
           ELSE run_dfg_from(gr, apply_opaque(a, gr, v), dn \cup {v})
         : v \in {w \in (1..gr.n) \ dn : PredsIn(gr, w) \subseteq dn}}

run_dfg(gr) == run_dfg_from(gr, new(gr), {})

\* the keys of a nested region's maps under the global node ids
Relabel(m, base) ==
    [k \in {<<base + y[1], y[2]>> : y \in DOMAIN m} |-> m[<<k[1] - base, k[2]>>]]

Lift(a, base) ==
    [a EXCEPT !.frontier_cols = Relabel(@, base),
              !.internal_in_cols = Relabel(@, base),
              !.internal_out_cols = Relabel(@, base),
              !.nested_in_cols = Relabel(@, base),
              !.nested_out_cols = Relabel(@, base)]

\* run_dfg(hugr, parent, fun_op) for the parent of the i-th region under node
run_dfg_child(gr, node, i) ==
    {[ok |-> r.ok, a |-> Lift(r.a, NodeId(node, i, 0))] : r \in run_dfg(gr.sub[node][i])}

\* run_conditional: the unified column layout
unified_in_cols(gr, node) ==
    LET ins == gr.qin[node]
    IN [p \in {ins[j] : j \in 1..Len(ins)} |-> (CHOOSE j \in 1..Len(ins) : ins[j] = p) - 1]

unified_out_cols(gr, node) ==
    LET outs == gr.qout[node]
    IN [p \in {outs[j] : j \in 1..Len(outs)} |->
           Len(gr.qin[node]) + (CHOOSE j \in 1..Len(outs) : outs[j] = p) - 1]

\* run_conditional, the arm Some(summ) (lines 169-172): a further case's
\* tableau `t` is not joined into the summary, whose tableau stays
join_case(summ_tab, t) == summ_tab

\* the summary tableau after the first i cases: the arm None (lines 173-186)
\* takes the first case's tableau
RECURSIVE summary_tab(_, _)
summary_tab(f, i) ==
    IF i = 1 THEN f[1].a.tab ELSE join_case(summary_tab(f, i - 1), f[i].a.tab)

\* run_conditional: every case is analysed in order; the summary is built
\* from the first case and every case's analysis is stored in it
run_conditional(gr, node) ==
    LET nc == Len(gr.sub[node])
        picks == {f \in [1..nc -> UNION {run_dfg_child(gr, node, i) : i \in 1..nc}] :
                     \A i \in 1..nc : f[i] \in run_dfg_child(gr, node, i)}
    IN {IF \A i \in 1..nc : f[i].ok
        THEN Returned([empty_analysis EXCEPT
                 !.tab = summary_tab(f, nc),
                 !.in_cols = unified_in_cols(gr, node),
                 !.out_cols = unified_out_cols(gr, node),
                 !.nested_analysis = [c \in children(gr, node) |->
                     f[CHOOSE i \in 1..nc : NodeId(node, i, 0) = c].a]])
        ELSE Panicked : f \in picks}

\* run_tail_loop, lines 194-226: the summary for the child's analysis
tail_loop_summary(tl, child_node, child_analysis) ==
    LET nj == Len(tl.just_outputs)
        nr == Len(tl.rest)
    IN [empty_analysis EXCEPT
          !.tab = add_cols(TableauNew(0), nj + 2 * nr),
          !.in_cols = [p \in {k + 1 : k \in 0..(nr - 1)} |-> nj + 2 * (p - 1)],
          !.out_cols = [p \in (0..(nj - 1)) \cup {k + nj : k \in 0..(nr - 1)} |->
                           IF p < nj THEN p ELSE nj + 2 * (p - nj) + 1],
          !.nested_analysis = (child_node :> child_analysis)]

\* run_tail_loop: children(node).exactly_one().ok().unwrap() panics unless
\* the loop has exactly one child; a child that is no dataflow parent has no
\* Input child, and StabilizerDataflow::new panics on it (line 55)
run_tail_loop(gr, node) ==
    LET ch == children(gr, node)
    IN IF Cardinality(ch) # 1 THEN {Panicked}
       ELSE LET child_node == CHOOSE c \in ch : TRUE
                rs == IF child_node = NodeId(node, 1, 0)
                      THEN run_dfg_child(gr, node, 1)
                      ELSE {Panicked}
            IN {IF r.ok
                THEN Returned(tail_loop_summary(as_tail_loop(gr, node), child_node, r.a))
                ELSE Panicked : r \in rs}

\* apply_analysis, lines 416-449: the nested tableau's columns are appended,
\* its maps copied with the column offset, its rows added
Shifted(m, d) == [k \in DOMAIN m |-> m[k] + d]
Keyed(m, node) == [k \in {<<node, p>> : p \in DOMAIN m} |-> m[k[2]]]
Merge(m, m2) ==
    [k \in (DOMAIN m) \cup (DOMAIN m2) |-> IF k \in DOMAIN m2 THEN m2[k] ELSE m[k]]

\* the nested row extended by old_n_qbs leading identity columns
extend_vec(row, old_n_qbs) ==
    LET n == Cardinality(DOMAIN row.z)
    IN [z |-> [q \in 0..(old_n_qbs + n - 1) |-> q >= old_n_qbs /\ row.z[q - old_n_qbs]],
        x |-> [q \in 0..(old_n_qbs + n - 1) |-> q >= old_n_qbs /\ row.x[q - old_n_qbs]],
        sign |-> row.sign]

RECURSIVE apply_analysis_rows(_, _, _, _)
apply_analysis_rows(t, nested, old_n_qbs, i) ==
    IF i = 0 THEN t
    ELSE add_row(apply_analysis_rows(t, nested, old_n_qbs, i - 1),
                 extend_vec(stabs_get(nested, i - 1), old_n_qbs))

apply_analysis_copy(a, node) ==
    LET node_analysis == a.nested_analysis[node]
        old_n_qbs == a.tab.nb_qubits
        n_added_qbs == node_analysis.tab.nb_qubits
    IN [a EXCEPT
          !.tab = apply_analysis_rows(add_cols(a.tab, n_added_qbs), node_analysis.tab,
                                      old_n_qbs, nb_stabs(node_analysis.tab)),
          !.nested_in_cols =
              Merge(Merge(@, Shifted(Keyed(node_analysis.in_cols, node), old_n_qbs)),
                    Shifted(node_analysis.nested_in_cols, old_n_qbs)),
          !.nested_out_cols =
              Merge(Merge(@, Shifted(Keyed(node_analysis.out_cols, node), old_n_qbs)),
                    Shifted(node_analysis.nested_out_cols, old_n_qbs)),
          !.internal_in_cols = Merge(@, Shifted(node_analysis.internal_in_cols, old_n_qbs)),
          !.internal_out_cols = Merge(@, Shifted(node_analysis.internal_out_cols, old_n_qbs))]

\* apply_analysis, lines 450-456: the first j input ports; the unwrap panics
\* on a port without a frontier entry
RECURSIVE apply_analysis_inputs(_, _, _, _)
apply_analysis_inputs(a, gr, node, j) ==
    IF j = 0 THEN Returned(a)
    ELSE LET prev == apply_analysis_inputs(a, gr, node, j - 1)
             port == node_inputs(gr, node)[j]
         IN IF ~prev.ok THEN prev
            ELSE IF <<node, port>> \notin DOMAIN prev.a.frontier_cols
            THEN [ok |-> FALSE, a |-> prev.a]
            ELSE Returned([prev.a EXCEPT
                     !.frontier_cols = Remove(@, <<node, port>>),
                     !.internal_in_cols =
                         Insert(@, <<node, port>>, prev.a.frontier_cols[<<node, port>>])])

\* apply_analysis, lines 457-466: the first j output ports
RECURSIVE apply_analysis_outputs(_, _, _, _)
apply_analysis_outputs(res, gr, node, j) ==
    IF j = 0 THEN res
    ELSE LET prev == apply_analysis_outputs(res, gr, node, j - 1)
             port == node_outputs(gr, node)[j]
             internal_col == prev.a.tab.nb_qubits
             front_col == prev.a.tab.nb_qubits + 1
         IN IF ~prev.ok THEN prev
            ELSE IF <<node, port>> \notin DOMAIN gr.link
            THEN [ok |-> FALSE, a |-> prev.a]
            ELSE Returned([prev.a EXCEPT
                     !.tab = add_col(add_col(@)),
                     !.internal_out_cols = Insert(@, <<node, port>>, internal_col),
                     !.frontier_cols = Insert(@, Succ(gr, node, port), front_col)])

\* apply_analysis: [ok |-> FALSE] with the value at the panic when an unwrap
\* fails
apply_analysis(a, gr, node) ==
    apply_analysis_outputs(
        apply_analysis_inputs(apply_analysis_copy(a, node), gr, node,
                              Len(node_inputs(gr, node))),
        gr, node, Len(node_outputs(gr, node)))

\* analysis.nested_analysis.insert(node, nested); analysis.apply_analysis(..)
insert_and_apply(a, gr, node, nested) ==
    apply_analysis([a EXCEPT !.nested_analysis = Insert(@, node, nested)], gr, node)

\* host regions: the bodies nested under their hierarchical nodes
Bodies1 ==
    {<<>>, <<G("H", <<0>>)>>, <<G("X", <<0>>)>>, <<G("T", <<0>>)>>,
     <<G("H", <<0>>), G("S", <<0>>)>>}

Host(sig, gates, sub) == Build(sig, gates) @@ [sub |-> sub]

\* a Conditional on one qubit with two cases (the bool input is the
\* discriminator), after the gates `pre`
HostConditional(pre, b0, b1) ==
    Host(<<"c", "q">>, pre \o <<G("Conditional", <<0>>)>>,
         (3 + Len(pre)) :> <<Build(<<"q">>, b0), Build(<<"q">>, b1)>>)

\* a Call on one qubit to a function with body b, after the gates `pre`
HostCall(pre, b) ==
    Host(<<"q">>, pre \o <<G("Call", <<0>>)>>, (3 + Len(pre)) :> <<Build(<<"q">>, b)>>)

\* test_if_simple: T; Conditional(case 0: CX, case 1: identity); Tdg
test_if_simple ==
    Host(<<"q", "q", "c">>,
         <<G("T", <<0>>), G("Conditional2", <<0, 1>>), G("Tdg", <<0>>)>>,
         4 :> <<Build(<<"q", "q">>, <<G("CX", <<0, 1>>)>>), Build(<<"q", "q">>, <<>>)>>)

\* test_loop_null: Reset; T; TailLoop(body: T, Tdg); Tdg.  The loop's bool
\* output (port 2) is linked to the Output node.
test_loop_null ==
    LET h == Host(<<"q", "q", "c">>,
                  <<G("Reset", <<0>>), G("T", <<1>>), G("TailLoop", <<0, 1>>),
                    G("Tdg", <<1>>)>>,
                  5 :> <<Build(<<"q", "q", "c">>, <<G("T", <<0>>), G("Tdg", <<1>>)>>)>>)
    IN [h EXCEPT !.link = @ @@ (<<5, 2>> :> <<OutputNode, 2>>)]

HostRegions ==
    {HostConditional(pre, b0, b1) :
        pre \in {<<>>, <<G("H", <<0>>)>>}, b0 \in Bodies1, b1 \in Bodies1}
    \cup {HostCall(pre, b) : pre \in {<<>>, <<G("H", <<0>>)>>}, b \in Bodies1}
    \cup {test_if_simple, test_loop_null}

\* Regions a hugr that was not validated can hold.  Unlink: the edge from
\* output port k is missing; Fork: output port k has a second edge (to
\* the same node); WithInputs: the region has c Input children;
\* UnfedOutput: the Output sentinel has one more qubit input port, which no
\* edge reaches.
Unlink(gr, k) == [gr EXCEPT !.link = Remove(@, k)]
Fork(gr, k) == gr @@ [multi |-> {k}]
WithInputs(gr, c) == gr @@ [inputs |-> c]
UnfedOutput(gr) == [gr EXCEPT !.qin[OutputNode] = Append(@, Len(@))]

MalformedRegions(regions) ==
    UNION {{Unlink(gr, k) : k \in DOMAIN gr.link}
           \cup {Fork(gr, k) : k \in DOMAIN gr.link}
           \cup {WithInputs(gr, c) : c \in {0, 2}}
           \cup {UnfedOutput(gr)} : gr \in regions}

(***************************************************************************)
(* run_dfg: the traversal.  pv::Topo yields a node all of whose            *)
(* predecessors in the region's port graph have been yielded.              *)
(***************************************************************************)
Nodes == 1..g.n
Preds(v) == {k[1] : k \in {y \in DOMAIN g.link : g.link[y][1] = v}}
Ready(v) == pc = "run" /\ v \in Nodes \ done /\ Preds(v) \subseteq done

Advance(v) ==
    /\ done' = done \cup {v}
    /\ last' = v
    /\ pc' = IF done \cup {v} = Nodes THEN "returned" ELSE "run"
    /\ UNCHANGED <<g, fun_op, tab, tab_before, gate, case_tab, stack>>

\* OpType::ExtensionOp(op), TketOp::from_extension_op(op) is Ok
StepTketOp(v) ==
    /\ Ready(v)
    /\ g.op[v] \in TketOps
    /\ ~Panics(analysis, g, v)
    /\ analysis' = apply_quantum_gate(analysis, g, v, g.op[v])
    /\ Advance(v)

\* OpType::ExtensionOp(op), TketOp::from_extension_op(op) is Err
StepExtensionOpaque(v) ==
    /\ Ready(v)
    /\ g.op[v] \in ExtOps
    /\ ~Panics(analysis, g, v)
    /\ analysis' = apply_opaque(analysis, g, v)
    /\ Advance(v)

\* OpType::Output(_)
StepOutput(v) ==
    /\ Ready(v)
    /\ g.op[v] = "Output"
    /\ analysis' \in output_results(analysis)
    /\ Advance(v)

\* the arm `_`: every other OpType, the Input sentinel among them
StepOther(v) ==
    /\ Ready(v)
    /\ g.op[v] \in OtherOps \cup {"Input"}
    /\ ~Panics(analysis, g, v)
    /\ analysis' = apply_opaque(analysis, g, v)
    /\ Advance(v)

\* an unwrap on a missing frontier entry: the analysis aborts, no summary
StepPanic(v) ==
    /\ Ready(v)
    /\ g.op[v] \notin {"Output"} \cup HierOps
    /\ Panics(analysis, g, v)
    /\ pc' = "aborted"
    /\ last' = v
    /\ UNCHANGED <<g, done, analysis, fun_op, tab, tab_before, gate, case_tab, stack>>

\* a hierarchical step that ran into a panic: `a` is the analysis value at
\* the panic
Abort(v, a) ==
    /\ pc' = "aborted"
    /\ last' = v
    /\ analysis' = a
    /\ UNCHANGED <<g, done, fun_op, tab, tab_before, gate, case_tab, stack>>

\* the step returned with the value res.a, or panicked with it
Finish(v, res) ==
    IF res.ok THEN analysis' = res.a /\ Advance(v) ELSE Abort(v, res.a)

\* OpType::Conditional(_)
StepConditional(v) ==
    /\ Ready(v)
    /\ g.op[v] \in ConditionalOps
    /\ \E cond_analysis \in run_conditional(g, v) :
          IF cond_analysis.ok
          THEN Finish(v, insert_and_apply(analysis, g, v, cond_analysis.a))
          ELSE Abort(v, analysis)

\* OpType::TailLoop(_)
StepTailLoop(v) ==
    /\ Ready(v)
    /\ g.op[v] = "TailLoop"
    /\ \E loop_analysis \in run_tail_loop(g, v) :
          IF loop_analysis.ok
          THEN Finish(v, insert_and_apply(analysis, g, v, loop_analysis.a))
          ELSE Abort(v, analysis)

\* OpType::Call(_): Opaque calls apply_opaque; Boundary and Inline analyse
\* the function definition linked to the static input port and compose it
StepCall(v) ==
    /\ Ready(v)
    /\ g.op[v] = "Call"
    /\ IF fun_op = "Opaque"
       THEN IF Panics(analysis, g, v) THEN Abort(v, analysis)
            ELSE analysis' = apply_opaque(analysis, g, v) /\ Advance(v)
       ELSE \E fun_analysis \in run_dfg_child(g, v, 1) :
               IF fun_analysis.ok
               THEN Finish(v, insert_and_apply(analysis, g, v, fun_analysis.a))
               ELSE Abort(v, analysis)

Init ==
    /\ g \in Regions \cup HostRegions
    /\ fun_op \in IF \E v \in 1..g.n : g.op[v] = "Call" THEN FunctionOpacity ELSE {"Opaque"}
    /\ done = {}
    /\ last = 0
    /\ pc = "run"
    /\ analysis = new(g)
    /\ tab = TableauNew(0)
    /\ tab_before = TableauNew(0)
    /\ gate = [op |-> "none", qs |-> <<>>]
    /\ case_tab = TableauNew(0)
    /\ stack = <<>>

Next ==
    \/ \E v \in Nodes : StepTketOp(v)
    \/ \E v \in Nodes : StepExtensionOpaque(v)
    \/ \E v \in Nodes : StepOutput(v)
    \/ \E v \in Nodes : StepOther(v)
    \/ \E v \in Nodes : StepPanic(v)
    \/ \E v \in Nodes : StepConditional(v)
    \/ \E v \in Nodes : StepTailLoop(v)
    \/ \E v \in Nodes : StepCall(v)

Spec == Init /\ [][Next]_vars

\* SpecAny: run_dfg on any region, those of hugrs that do not validate
\* included.  A panic in StabilizerDataflow::new aborts before the
\* traversal starts.
InitAny ==
    /\ g \in Regions \cup HostRegions \cup MalformedRegions(Regions)
    /\ fun_op \in IF \E v \in 1..g.n : g.op[v] = "Call" THEN FunctionOpacity ELSE {"Opaque"}
    /\ done = {}
    /\ last = 0
    /\ pc = IF NewPanics(g) THEN "aborted" ELSE "run"
    /\ analysis = IF NewPanics(g) THEN empty_analysis ELSE new(g)
    /\ tab = TableauNew(0)
    /\ tab_before = TableauNew(0)
    /\ gate = [op |-> "none", qs |-> <<>>]
    /\ case_tab = TableauNew(0)
    /\ stack = <<>>

SpecAny == InitAny /\ [][Next]_vars

(***************************************************************************)
(* SpecTab: the Clifford appends as functions of a tableau.  Init draws    *)
(* the tableau; each step applies one gate as the Clifford arms of         *)
(* apply_quantum_gate apply it, or one of the gate sequences of            *)
(* test_clifford_gates.                                                    *)
(***************************************************************************)
TabInputs ==
    UNION {{[nb_qubits |-> n, z |-> zz, x |-> xx, signs |-> sg] :
               zz \in [0..(n - 1) -> BvAll(R)], xx \in [0..(n - 1) -> BvAll(R)], sg \in {BvNew(R)} \cup BvAll(R)} :
           <<n, R>> \in (1..MaxTabQubits) \X (0..MaxTabRows)}

Arity(op) == IF op \in {"CX", "CY", "CZ"} THEN 2 ELSE 1

\* the gate sequences of test_clifford_gates (lines 590-610), on columns qs
SequenceNames == {"H;S;V;S", "CX;H;CZ;H", "CX;S;CY;Sdg", "S;Sdg", "V;Vdg"}

SequenceArity(name) == IF name \in {"CX;H;CZ;H", "CX;S;CY;Sdg"} THEN 2 ELSE 1

Sequence(name, qs) ==
    CASE name = "H;S;V;S" ->
            <<G("H", qs), G("S", qs), G("V", qs), G("S", qs)>>
      [] name = "CX;H;CZ;H" ->
            <<G("CX", qs), G("H", <<qs[2]>>), G("CZ", qs), G("H", <<qs[2]>>)>>
      [] name = "CX;S;CY;Sdg" ->
            <<G("CX", qs), G("S", <<qs[2]>>), G("CY", qs), G("Sdg", <<qs[2]>>)>>
      [] name = "S;Sdg" -> <<G("S", qs), G("Sdg", qs)>>
      [] name = "V;Vdg" -> <<G("V", qs), G("Vdg", qs)>>

RECURSIVE AppendAll(_, _)
AppendAll(t, gs) ==
    IF gs = <<>> THEN t
    ELSE AppendAll(clifford_append(t, Head(gs).op, Head(gs).ls), Tail(gs))

TabFrame == UNCHANGED <<g, done, last, analysis, fun_op, case_tab, stack>>

ApplyGate(op, qs) ==
    /\ pc = "tab"
    /\ pc' = "applied"
    /\ tab' = clifford_append(tab, op, qs)
    /\ tab_before' = tab
    /\ gate' = [op |-> op, qs |-> qs]
    /\ TabFrame

ApplySequence(name, qs) ==
    /\ pc = "tab"
    /\ pc' = "applied"
    /\ tab' = AppendAll(tab, Sequence(name, qs))
    /\ tab_before' = tab
    /\ gate' = [op |-> name, qs |-> qs]
    /\ TabFrame

InitTab ==
    /\ g = Build(<<>>, <<>>)
    /\ done = {}
    /\ last = 0
    /\ pc = "tab"
    /\ analysis = new(g)
    /\ fun_op = "Opaque"
    /\ tab \in TabInputs
    /\ tab_before = tab
    /\ gate = [op |-> "none", qs |-> <<>>]
    /\ case_tab = TableauNew(0)
    /\ stack = <<>>

NextTab ==
    \/ \E op \in CliffordOps :
          \E qs \in ArgTuples(0..(tab.nb_qubits - 1), Arity(op)) : ApplyGate(op, qs)
    \/ \E name \in SequenceNames :
          \E qs \in ArgTuples(0..(tab.nb_qubits - 1), SequenceArity(name)) :
              ApplySequence(name, qs)

SpecTab == InitTab /\ [][NextTab]_vars

(***************************************************************************)
(* Reference Pauli algebra, used to state the claims.  A Pauli product on  *)
(* columns 0..n-1 is i^ph * PROD_q X_q^x[q] Z_q^z[q]; Y = i X Z.  A        *)
(* tableau row (z, x, sign) stands for (-1)^sign * PROD_q P_q with         *)
(* P_q = Y where both bits are set.                                        *)
(***************************************************************************)
PauliMul(p1, p2) ==
    [z |-> [q \in DOMAIN p1.z |-> p1.z[q] # p2.z[q]],
     x |-> [q \in DOMAIN p1.x |-> p1.x[q] # p2.x[q]],
     ph |-> (p1.ph + p2.ph
               + 2 * Cardinality({q \in DOMAIN p1.z : p1.z[q] /\ p2.x[q]})) % 4]

PauliI(n) == [z |-> [q \in 0..(n - 1) |-> FALSE], x |-> [q \in 0..(n - 1) |-> FALSE], ph |-> 0]
PauliX(n, a) == [PauliI(n) EXCEPT !.x[a] = TRUE]
PauliZ(n, a) == [PauliI(n) EXCEPT !.z[a] = TRUE]
PauliY(n, a) == [PauliI(n) EXCEPT !.x[a] = TRUE, !.z[a] = TRUE, !.ph = 1]
PauliNeg(p) == [p EXCEPT !.ph = (p.ph + 2) % 4]

NbY(row) == Cardinality({q \in DOMAIN row.z : row.z[q] /\ row.x[q]})

RowToPauli(row) ==
    [z |-> row.z, x |-> row.x, ph |-> (2 * (IF row.sign THEN 1 ELSE 0) + NbY(row)) % 4]

\* defined for Hermitian products only: ph - NbY is even
PauliToRow(p) ==
    [z |-> p.z, x |-> p.x, sign |-> ((p.ph + 4 - (NbY(p) % 4)) % 4) = 2]

\* U X_q U^dagger for the gate U = op on columns qs
ImageX(n, op, qs, q) ==
    LET a == qs[1]
        b == qs[Len(qs)]
    IN CASE op \in {"X", "V", "Vdg"} -> PauliX(n, q)
         [] op \in {"Y", "Z"} -> IF q = a THEN PauliNeg(PauliX(n, q)) ELSE PauliX(n, q)
         [] op = "H" -> IF q = a THEN PauliZ(n, q) ELSE PauliX(n, q)
         [] op = "S" -> IF q = a THEN PauliY(n, q) ELSE PauliX(n, q)
         [] op = "Sdg" -> IF q = a THEN PauliNeg(PauliY(n, q)) ELSE PauliX(n, q)
         [] op = "CX" -> IF q = a THEN PauliMul(PauliX(n, a), PauliX(n, b)) ELSE PauliX(n, q)
         [] op = "CY" -> IF q = a THEN PauliMul(PauliX(n, a), PauliY(n, b))
                         ELSE IF q = b THEN PauliMul(PauliZ(n, a), PauliX(n, b))
                         ELSE PauliX(n, q)
         [] op = "CZ" -> IF q = a THEN PauliMul(PauliX(n, a), PauliZ(n, b))
                         ELSE IF q = b THEN PauliMul(PauliZ(n, a), PauliX(n, b))
                         ELSE PauliX(n, q)

\* U Z_q U^dagger for the gate U = op on columns qs
ImageZ(n, op, qs, q) ==
    LET a == qs[1]
        b == qs[Len(qs)]
    IN CASE op \in {"Z", "S", "Sdg", "CZ"} -> PauliZ(n, q)
         [] op \in {"X", "Y"} -> IF q = a THEN PauliNeg(PauliZ(n, q)) ELSE PauliZ(n, q)
         [] op = "H" -> IF q = a THEN PauliX(n, q) ELSE PauliZ(n, q)
         [] op = "V" -> IF q = a THEN PauliNeg(PauliY(n, q)) ELSE PauliZ(n, q)
         [] op = "Vdg" -> IF q = a THEN PauliY(n, q) ELSE PauliZ(n, q)
         [] op \in {"CX", "CY"} ->
               IF q = b THEN PauliMul(PauliZ(n, a), PauliZ(n, b)) ELSE PauliZ(n, q)

\* U P U^dagger, multiplying the images of P's factors in the order of P
RECURSIVE ConjugateFrom(_, _, _, _, _)
ConjugateFrom(n, op, qs, p, q) ==
    IF q = n THEN [PauliI(n) EXCEPT !.ph = p.ph]
    ELSE LET fx == IF p.x[q] THEN ImageX(n, op, qs, q) ELSE PauliI(n)
             fz == IF p.z[q] THEN ImageZ(n, op, qs, q) ELSE PauliI(n)
         IN PauliMul(PauliMul(fx, fz), ConjugateFrom(n, op, qs, p, q + 1))

Conjugate(op, qs, row) ==
    LET n == Cardinality(DOMAIN row.z)
    IN PauliToRow(ConjugateFrom(n, op, qs, RowToPauli(row), 0))

(***************************************************************************)
(* Properties of run_dfg                                                   *)
(***************************************************************************)
OutputQPorts == {g.qin[OutputNode][j] : j \in 1..Len(g.qin[OutputNode])}

\* C1: when run_dfg returns, frontier_cols is empty and out_cols has exactly
\* one entry for each qubit-typed input port of the Output sentinel and no
\* entry for any other port.
C1_ReturnFrontierEmptyOutColsExact ==
    pc = "returned" =>
        /\ DOMAIN analysis.frontier_cols = {}
        /\ DOMAIN analysis.out_cols = OutputQPorts

\* the qubit edges from a processed node (the Input sentinel included) to a
\* node not yet processed, as (consumer node, consumer input port)
PendingEdges ==
    {g.link[k] : k \in {y \in DOMAIN g.link :
                           y[1] \in done \cup {InputNode} /\ g.link[y][1] \notin done}}

\* C2: between two node steps, the keys of frontier_cols are exactly the
\* pending qubit edges between processed and unprocessed nodes.
C2_FrontierIsPendingEdges ==
    pc = "run" => DOMAIN analysis.frontier_cols = PendingEdges

\* the entries of the six column maps that hold column c
ColumnRefs(a, c) ==
    {<<"in_cols", k>> : k \in {y \in DOMAIN a.in_cols : a.in_cols[y] = c}}
    \cup {<<"out_cols", k>> : k \in {y \in DOMAIN a.out_cols : a.out_cols[y] = c}}
    \cup {<<"internal_in_cols", k>> :
             k \in {y \in DOMAIN a.internal_in_cols : a.internal_in_cols[y] = c}}
    \cup {<<"internal_out_cols", k>> :
             k \in {y \in DOMAIN a.internal_out_cols : a.internal_out_cols[y] = c}}
    \cup {<<"nested_in_cols", k>> :
             k \in {y \in DOMAIN a.nested_in_cols : a.nested_in_cols[y] = c}}
    \cup {<<"nested_out_cols", k>> :
             k \in {y \in DOMAIN a.nested_out_cols : a.nested_out_cols[y] = c}}

\* C3: on return every column 0..nb_qubits-1 is referenced by exactly one
\* entry across in_cols, out_cols, internal_* and nested_* (no region of the
\* model retains nested internals).
C3_EachColumnReferencedOnce ==
    pc = "returned" =>
        \A c \in 0..(analysis.tab.nb_qubits - 1) : Cardinality(ColumnRefs(analysis, c)) = 1

ColumnMaps ==
    {"in_cols", "out_cols", "frontier_cols", "internal_in_cols", "internal_out_cols",
     "nested_in_cols", "nested_out_cols"}

AllColsValid(a) ==
    \A m \in ColumnMaps : \A k \in DOMAIN a[m] : a[m][k] < a.tab.nb_qubits

\* what the claim states of a QFree step of node v from a to b: the column c
\* of its input is dropped, higher columns shift down by one
QFreeDropsColumn(a, b, v) ==
    LET c == a.frontier_cols[<<v, 0>>]
        rest(m) == IF m = "frontier_cols" THEN Remove(a[m], <<v, 0>>) ELSE a[m]
    IN /\ b.tab.nb_qubits = a.tab.nb_qubits - 1
       /\ \A m \in ColumnMaps :
             /\ DOMAIN b[m] = {k \in DOMAIN rest(m) : rest(m)[k] # c}
             /\ \A k \in DOMAIN b[m] :
                   b[m][k] = IF rest(m)[k] > c THEN rest(m)[k] - 1 ELSE rest(m)[k]

\* C4: after every node step every column stored in a map is < nb_qubits;
\* a QFree step on column c decrements nb_qubits, leaves no entry for c,
\* rewrites entries d > c to d-1 and keeps entries d < c.
C4_ColumnsValidAndQFreeShifts ==
    [][done' # done =>
          /\ AllColsValid(analysis')
          /\ g.op[last'] = "QFree" => QFreeDropsColumn(analysis, analysis', last')]_vars

IdentityRow(n, kind, c0, c1) ==
    [z |-> [q \in 0..(n - 1) |-> kind = "Z" /\ q \in {c0, c1}],
     x |-> [q \in 0..(n - 1) |-> kind = "X" /\ q \in {c0, c1}],
     sign |-> FALSE]

Rows(t) == {stabs_get(t, r) : r \in 0..(nb_stabs(t) - 1)}

\* C5: initialisation of a region with K qubit inputs gives 2K columns and
\* 2K rows with sign false; for the k-th qubit input in_cols = 2k, the
\* successor's frontier entry = 2k+1, rows X and Z on columns {2k, 2k+1}.
C5_InitIdentityPairs ==
    (pc = "run" /\ done = {}) =>
        LET ports == g.qout[InputNode]
            K == Len(ports)
        IN /\ analysis.tab.nb_qubits = 2 * K
           /\ nb_stabs(analysis.tab) = 2 * K
           /\ DOMAIN analysis.in_cols = {ports[k] : k \in 1..K}
           /\ DOMAIN analysis.frontier_cols = {Succ(g, InputNode, ports[k]) : k \in 1..K}
           /\ \A k \in 1..K :
                 /\ analysis.in_cols[ports[k]] = 2 * (k - 1)
                 /\ analysis.frontier_cols[Succ(g, InputNode, ports[k])] = 2 * (k - 1) + 1
           /\ Rows(analysis.tab) =
                 {IdentityRow(2 * K, kind, 2 * (k - 1), 2 * (k - 1) + 1) :
                     kind \in {"X", "Z"}, k \in 1..K}

CliffordStep == done' # done /\ g.op[last'] \in CliffordOps

\* C6: a step for a known Clifford gate changes neither nb_qubits nor the
\* number of rows nor any map except frontier_cols, and the column taken
\* from input port i is the column published under the successor of output
\* port i.
C6_CliffordStepFrame ==
    [][CliffordStep =>
          LET v == last'
              ins == {<<v, g.qin[v][j]>> : j \in 1..Len(g.qin[v])}
              outs == {Succ(g, v, g.qout[v][j]) : j \in 1..Len(g.qout[v])}
          IN /\ analysis'.tab.nb_qubits = analysis.tab.nb_qubits
             /\ nb_stabs(analysis'.tab) = nb_stabs(analysis.tab)
             /\ \A m \in (ColumnMaps \ {"frontier_cols"}) \cup {"nested_analysis"} :
                   analysis'[m] = analysis[m]
             /\ Len(g.qout[v]) = Len(g.qin[v])
             /\ DOMAIN analysis'.frontier_cols = ((DOMAIN analysis.frontier_cols) \ ins) \cup outs
             /\ \A k \in (DOMAIN analysis.frontier_cols) \ ins :
                   k \notin outs => analysis'.frontier_cols[k] = analysis.frontier_cols[k]
             /\ \A j \in 1..Len(g.qin[v]) :
                   analysis'.frontier_cols[Succ(g, v, g.qout[v][j])]
                       = analysis.frontier_cols[<<v, g.qin[v][j]>>]]_vars

\* a two-qubit Clifford gate has just been processed, on two distinct columns
C6_Witness ==
    /\ pc \in {"run", "returned"}
    /\ last \in done
    /\ g.op[last] \in {"CX", "CY", "CZ"}
    /\ \E k1, k2 \in DOMAIN analysis.frontier_cols :
          /\ k1 = Succ(g, last, 0)
          /\ k2 = Succ(g, last, 1)
          /\ analysis.frontier_cols[k1] # analysis.frontier_cols[k2]

\* the region input (1..K, in port order) whose qubit reaches input port p of
\* node v through Clifford gates (output port i carries the qubit of input i)
RECURSIVE WireOf(_, _, _)
WireOf(gr, v, p) ==
    LET y == CHOOSE k \in DOMAIN gr.link : gr.link[k] = <<v, p>>
    IN IF y[1] = InputNode
       THEN CHOOSE k \in 1..Len(gr.qout[InputNode]) : gr.qout[InputNode][k] = y[2]
       ELSE WireOf(gr, y[1], y[2])

CliffordOnly(gr) == \A v \in 3..gr.n : gr.op[v] \in CliffordOps

\* the output column of region input k: the out_cols entry of the Output port
\* its qubit reaches
OutColOfWire(gr, a, k) ==
    a.out_cols[CHOOSE p \in DOMAIN a.out_cols :
                  p \in {gr.qin[OutputNode][j] : j \in 1..Len(gr.qin[OutputNode])}
                  /\ WireOf(gr, OutputNode, p) = k]

\* the identity generators X_in X_out, Z_in Z_out of every input, conjugated
\* by the gates of nodes 3..v in circuit order, acting on the output columns
RECURSIVE ReferenceRows(_, _, _)
ReferenceRows(gr, a, v) ==
    IF v < 3
    THEN {IdentityRow(a.tab.nb_qubits, kind,
                      a.in_cols[gr.qout[InputNode][k]], OutColOfWire(gr, a, k)) :
             kind \in {"X", "Z"}, k \in 1..Len(gr.qout[InputNode])}
    ELSE LET cols == [j \in 1..Len(gr.qin[v]) |->
                         OutColOfWire(gr, a, WireOf(gr, v, gr.qin[v][j]))]
         IN {Conjugate(gr.op[v], cols, row) : row \in ReferenceRows(gr, a, v - 1)}

\* All products of the rows of S.  For commuting rows this is the group they
\* generate; a set of rows with an anticommuting pair generates no stabilizer
\* group and its products differ from those of any commuting set.
RECURSIVE GroupOf(_, _)
GroupOf(n, S) ==
    IF S = {} THEN {PauliI(n)}
    ELSE LET r == CHOOSE y \in S : TRUE
             rest == GroupOf(n, S \ {r})
         IN rest \cup {PauliMul(RowToPauli(r), s) : s \in rest}

\* C7: for a region of Clifford gates only, the stabilizer group of the
\* returned tableau (signs included) is the group of the identity generators
\* X_in X_out, Z_in Z_out conjugated by the gates in circuit order.
C7_CliffordRegionGroup ==
    (pc = "returned" /\ CliffordOnly(g)) =>
        GroupOf(analysis.tab.nb_qubits, Rows(analysis.tab))
            = GroupOf(analysis.tab.nb_qubits, ReferenceRows(g, analysis, g.n))

\* C8: each of the sequences H;S;V;S, CX;H(b);CZ;H(b), CX;S(b);CY;Sdg(b),
\* S;Sdg and V;Vdg leaves every row of any tableau as it was, sign included.
C8_SequencesAreIdentity ==
    gate.op \in SequenceNames => tab = tab_before

\* a two-qubit sequence has run on a tableau with a row X on a, Z on b: one
\* whose sign the first CX leaves alone only because of the negation
C8_Witness ==
    /\ gate.op = "CX;S;CY;Sdg"
    /\ nb_stabs(tab_before) > 0
    /\ tab_before.x[gate.qs[1]][0]
    /\ tab_before.z[gate.qs[2]][0]
    /\ tab = tab_before

\* the appends of X, Z, S, V, CX each gate is built from, as the claim lists
Decomposition(op, qs) ==
    CASE op \in {"X", "Z", "S", "V", "CX"} -> <<G(op, qs)>>
      [] op = "H" -> <<G("S", qs), G("V", qs), G("S", qs)>>
      [] op = "CZ" -> <<G("S", <<qs[1]>>), G("S", <<qs[2]>>), G("CX", qs),
                        G("S", <<qs[2]>>), G("Z", <<qs[2]>>), G("CX", qs)>>
      [] op = "CY" -> <<G("S", <<qs[2]>>), G("Z", <<qs[2]>>), G("CX", qs),
                        G("S", <<qs[2]>>)>>
      [] op = "Sdg" -> <<G("S", qs), G("Z", qs)>>
      [] op = "Vdg" -> <<G("V", qs), G("X", qs)>>
      [] op = "Y" -> <<G("X", qs), G("Z", qs)>>

\* C9: every Clifford append maps each row to the conjugate of that row by
\* the gate (Y = iXZ), is the listed composition of X, Z, S, V, CX appends,
\* and CZ(a,b) gives the same tableau as CZ(b,a).
C9_AppendIsConjugation ==
    gate.op \in CliffordOps =>
        /\ tab.nb_qubits = tab_before.nb_qubits
        /\ nb_stabs(tab) = nb_stabs(tab_before)
        /\ \A r \in 0..(nb_stabs(tab) - 1) :
              stabs_get(tab, r) = Conjugate(gate.op, gate.qs, stabs_get(tab_before, r))
        /\ tab = AppendAll(tab_before, Decomposition(gate.op, gate.qs))
        /\ gate.op = "CZ" =>
              tab = clifford_append(tab_before, "CZ", <<gate.qs[2], gate.qs[1]>>)

\* CY has been appended to a tableau and flipped the sign of a row
C9_Witness ==
    /\ gate.op = "CY"
    /\ nb_stabs(tab) > 0
    /\ tab.signs # tab_before.signs
    /\ tab.z # tab_before.z

\* C10: a QAlloc step adds one column c_front and one row, Z on c_front with
\* sign false, and publishes c_front for its successor; the region of
\* test_bell_state returns 2 columns and the two rows XX and ZZ, sign false.
C10_QAllocAddsZRow ==
    [][done' # done =>
          /\ g.op[last'] = "QAlloc" =>
                LET c_front == analysis.tab.nb_qubits
                IN /\ analysis'.tab.nb_qubits = c_front + 1
                   /\ nb_stabs(analysis'.tab) = nb_stabs(analysis.tab) + 1
                   /\ \E r \in 0..(nb_stabs(analysis'.tab) - 1) :
                         stabs_get(analysis'.tab, r)
                             = IdentityRow(c_front + 1, "Z", c_front, c_front)
                   /\ analysis'.frontier_cols[Succ(g, last', 0)] = c_front
          /\ (pc' = "returned" /\ g = Build(test_bell_state.sig, test_bell_state.gates)) =>
                /\ analysis'.tab.nb_qubits = 2
                /\ nb_stabs(analysis'.tab) = 2
                /\ Rows(analysis'.tab) = {IdentityRow(2, "X", 0, 1), IdentityRow(2, "Z", 0, 1)}]_vars

(***************************************************************************)
(* Properties of the non-Clifford, opaque and discarding steps             *)
(***************************************************************************)
\* the Pauli P on columns c0 and c1 (P = "X", "Y" or "Z"), sign false
PauliPair(n, P, c0, c1) ==
    [z |-> [q \in 0..(n - 1) |-> P \in {"Z", "Y"} /\ q \in {c0, c1}],
     x |-> [q \in 0..(n - 1) |-> P \in {"X", "Y"} /\ q \in {c0, c1}],
     sign |-> FALSE]

\* two rows over the same columns commute: their symplectic product is 0
Commute(r1, r2) ==
    (Cardinality({q \in DOMAIN r1.z : r1.x[q] /\ r2.z[q]})
        + Cardinality({q \in DOMAIN r1.z : r1.z[q] /\ r2.x[q]})) % 2 = 0

\* the Pauli each boundary gate commutes with, per qubit port
BoundaryPauli(op, p) ==
    CASE op \in {"T", "Tdg", "Rz", "Measure", "CRz"} -> "Z"
      [] op = "Rx" -> "X"
      [] op = "Ry" -> "Y"
      [] op = "Toffoli" -> IF p = 2 THEN "X" ELSE "Z"

BoundaryOps == BoundaryOps1 \cup {"CRz", "Toffoli"}

\* C11: after the step of a non-Clifford boundary n, for each of its qubit
\* ports: two columns c_out, c_front were added, internal_in_cols[(n,p)] =
\* c_in, internal_out_cols[(n,p)] = c_out, the successor's frontier entry is
\* c_front, P_{c_in} P_{c_out} is in the group of the rows and every row
\* commutes with it (P = Z for T, Tdg, Rz, Measure, CRz; X for Rx; Y for Ry;
\* Z, Z, X for Toffoli).
C11_BoundaryStep ==
    [][(done' # done /\ g.op[last'] \in BoundaryOps) =>
          LET v == last'
              ports == {g.qin[v][j] : j \in 1..Len(g.qin[v])}
              old == analysis.tab.nb_qubits
              n == analysis'.tab.nb_qubits
              fresh == old..(n - 1)
          IN /\ n = old + 2 * Cardinality(ports)
             /\ \A p \in ports :
                   LET c_in == analysis.frontier_cols[<<v, p>>]
                       c_out == analysis'.internal_out_cols[<<v, p>>]
                       c_front == analysis'.frontier_cols[Succ(g, v, p)]
                       pair == PauliPair(n, BoundaryPauli(g.op[v], p), c_in, c_out)
                   IN /\ analysis'.internal_in_cols[<<v, p>>] = c_in
                      /\ c_out \in fresh
                      /\ c_front \in fresh
                      /\ c_out # c_front
                      /\ RowToPauli(pair) \in GroupOf(n, Rows(analysis'.tab))
                      /\ \A row \in Rows(analysis'.tab) : Commute(row, pair)]_vars

\* every operation of the region is a Clifford gate or a non-Clifford boundary
CliffordBoundaryOnly(gr) ==
    \A v \in 3..gr.n : gr.op[v] \in CliffordOps \cup BoundaryOps

\* C12: for a region built only from Clifford gates and the non-Clifford
\* boundaries, the returned tableau has as many rows as columns; for the
\* circuit of test_nonclifford it has 28 columns and 28 rows.
C12_RowsEqualColumns ==
    (pc = "returned" /\ CliffordBoundaryOnly(g)) =>
        /\ nb_stabs(analysis.tab) = analysis.tab.nb_qubits
        /\ g = Build(test_nonclifford.sig, test_nonclifford.gates) =>
              /\ analysis.tab.nb_qubits = 28
              /\ nb_stabs(analysis.tab) = 28

\* the columns on which a row is not the identity
Support(row) == {q \in DOMAIN row.z : row.z[q] \/ row.x[q]}

\* C13: an opaque step on a node with m qubit inputs and k qubit outputs
\* moves the m input frontier columns to internal_in_cols, adds 2k columns
\* (c_out in internal_out_cols, c_front published to the successor) coupled
\* by the identity rows X_{c_out} X_{c_front} and Z_{c_out} Z_{c_front}, and
\* after the step no row has support both on a column that existed before
\* the step and on one of the new columns.
C13_OpaqueStepBarrier ==
    [][(done' # done /\ g.op[last'] \in ExtOps \cup OtherOps) =>
          LET v == last'
              ins == {g.qin[v][j] : j \in 1..Len(g.qin[v])}
              outs == {g.qout[v][j] : j \in 1..Len(g.qout[v])}
              old == analysis.tab.nb_qubits
              n == analysis'.tab.nb_qubits
              fresh == old..(n - 1)
          IN /\ n = old + 2 * Cardinality(outs)
             /\ \A p \in ins :
                   /\ <<v, p>> \notin DOMAIN analysis'.frontier_cols
                   /\ analysis'.internal_in_cols[<<v, p>>] = analysis.frontier_cols[<<v, p>>]
             /\ \A p \in outs :
                   LET c_out == analysis'.internal_out_cols[<<v, p>>]
                       c_front == analysis'.frontier_cols[Succ(g, v, p)]
                   IN /\ c_out \in fresh
                      /\ c_front \in fresh
                      /\ c_out # c_front
                      /\ IdentityRow(n, "X", c_out, c_front) \in Rows(analysis'.tab)
                      /\ IdentityRow(n, "Z", c_out, c_front) \in Rows(analysis'.tab)
             /\ \A row \in Rows(analysis'.tab) :
                   Support(row) \subseteq fresh \/ Support(row) \cap fresh = {}]_vars

\* C14: Reset and QFree remove every relation on the discarded qubit (Reset
\* then adds the row Z on the reused column c_in and republishes c_in, QFree
\* drops the column); MeasureFree keeps its input column in
\* internal_in_cols, publishes no output and keeps only Z-type relations on
\* it; the region of test_mixed_clifford returns 4 columns (in0 = 0,
\* in1 = 1, MeasureFree input = 2, out0 = 3) and the single row Z on
\* columns 0, 1, 2 with sign false.
C14_DiscardsCollapseRows ==
    [][/\ (done' # done /\ g.op[last'] \in {"Reset", "QFree", "MeasureFree"}) =>
             LET v == last'
                 c_in == analysis.frontier_cols[<<v, 0>>]
                 n == analysis'.tab.nb_qubits
                 rows == Rows(analysis'.tab)
             IN /\ g.op[v] = "Reset" =>
                      /\ n = analysis.tab.nb_qubits
                      /\ analysis'.frontier_cols[Succ(g, v, 0)] = c_in
                      /\ IdentityRow(n, "Z", c_in, c_in) \in rows
                      /\ \A row \in rows \ {IdentityRow(n, "Z", c_in, c_in)} :
                            c_in \notin Support(row)
                /\ g.op[v] = "QFree" =>
                      /\ n = analysis.tab.nb_qubits - 1
                      /\ DOMAIN analysis'.frontier_cols
                            = DOMAIN analysis.frontier_cols \ {<<v, 0>>}
                /\ g.op[v] = "MeasureFree" =>
                      /\ n = analysis.tab.nb_qubits
                      /\ analysis'.internal_in_cols[<<v, 0>>] = c_in
                      /\ DOMAIN analysis'.frontier_cols
                            = DOMAIN analysis.frontier_cols \ {<<v, 0>>}
                      /\ \A row \in rows : ~row.x[c_in]
       /\ (pc' = "returned"
             /\ g = Build(test_mixed_clifford.sig, test_mixed_clifford.gates)) =>
             /\ analysis'.tab.nb_qubits = 4
             /\ nb_stabs(analysis'.tab) = 1
             /\ analysis'.in_cols = (0 :> 0 @@ 1 :> 1)
             /\ \E v \in 3..g.n : /\ g.op[v] = "MeasureFree"
                                  /\ analysis'.internal_in_cols[<<v, 0>>] = 2
             /\ analysis'.out_cols = (0 :> 3)
             /\ Rows(analysis'.tab)
                   = {[z |-> [q \in 0..3 |-> q \in {0, 1, 2}],
                       x |-> [q \in 0..3 |-> FALSE],
                       sign |-> FALSE]}]_vars

(***************************************************************************)
(* SpecJoin: join_case on two stabilizer tableaux over the same JoinQubits *)
(* columns: the rows of each commute and do not generate -I.               *)
(***************************************************************************)
JoinInputs ==
    {t \in UNION {{[nb_qubits |-> JoinQubits, z |-> zz, x |-> xx, signs |-> sg] :
                     zz \in [0..(JoinQubits - 1) -> BvAll(R)],
                     xx \in [0..(JoinQubits - 1) -> BvAll(R)],
                     sg \in BvAll(R)} : R \in 0..MaxJoinRows} :
        /\ \A r1, r2 \in Rows(t) : Commute(r1, r2)
        /\ PauliNeg(PauliI(JoinQubits)) \notin GroupOf(JoinQubits, Rows(t))}

JoinCase ==
    /\ pc = "join"
    /\ pc' = "joined"
    /\ tab' = join_case(tab, case_tab)
    /\ tab_before' = tab
    /\ UNCHANGED <<g, done, last, analysis, fun_op, gate, case_tab, stack>>

InitJoin ==
    /\ g = Build(<<>>, <<>>)
    /\ done = {}
    /\ last = 0
    /\ pc = "join"
    /\ analysis = new(g)
    /\ fun_op = "Opaque"
    /\ tab \in JoinInputs
    /\ tab_before = tab
    /\ gate = [op |-> "none", qs |-> <<>>]
    /\ case_tab \in JoinInputs
    /\ stack = <<>>

NextJoin == JoinCase

SpecJoin == InitJoin /\ [][NextJoin]_vars

(***************************************************************************)
(* Properties of the hierarchical nodes                                    *)
(***************************************************************************)
\* the columns of map m in the order of its keys
ColsInKeyOrder(m) == [j \in 1..Cardinality(DOMAIN m) |-> m[SortedSeq(DOMAIN m)[j]]]

\* The stabilizer group of analysis a projected to its input/output columns
\* (the members that are the identity on every other column) and reordered
\* to the unified layout: input columns first, then output columns, each in
\* port order.
ProjectedGroup(a) ==
    LET layout == ColsInKeyOrder(a.in_cols) \o ColsInKeyOrder(a.out_cols)
        io == {layout[j] : j \in 1..Len(layout)}
        members == {s \in GroupOf(a.tab.nb_qubits, Rows(a.tab)) :
                       \A q \in DOMAIN s.z : (s.z[q] \/ s.x[q]) => q \in io}
    IN {[z |-> [u \in 0..(Len(layout) - 1) |-> s.z[layout[u + 1]]],
         x |-> [u \in 0..(Len(layout) - 1) |-> s.x[layout[u + 1]]],
         ph |-> s.ph] : s \in members}

\* the step of node v that run_dfg has just taken (returned or panicked)
StepOf(ops) == last' # last /\ g.op[last'] \in ops

\* C15: the summary returned for a Conditional has exactly one column per
\* qubit-typed input and one per qubit-typed output (inputs first, then
\* outputs, in port order, none for the discriminator), in_cols and out_cols
\* point at those columns, and every row of the summary tableau is in the
\* stabilizer group of every case's analysis projected to its input/output
\* columns and reordered to the unified layout.
C15_ConditionalSummaryIsJoin ==
    [][StepOf(ConditionalOps) =>
          LET v == last'
              ins == g.qin[v]
              outs == g.qout[v]
          IN /\ v \in DOMAIN analysis'.nested_analysis
             /\ LET summ == analysis'.nested_analysis[v]
                IN /\ summ.tab.nb_qubits = Len(ins) + Len(outs)
                   /\ summ.in_cols = [p \in {ins[j] : j \in 1..Len(ins)} |->
                          (CHOOSE j \in 1..Len(ins) : ins[j] = p) - 1]
                   /\ summ.out_cols = [p \in {outs[j] : j \in 1..Len(outs)} |->
                          Len(ins) + (CHOOSE j \in 1..Len(outs) : outs[j] = p) - 1]
                   /\ \A c \in children(g, v) :
                         /\ c \in DOMAIN summ.nested_analysis
                         /\ \A row \in Rows(summ.tab) :
                               RowToPauli(row) \in ProjectedGroup(summ.nested_analysis[c])]_vars

\* C16: joining two commuting stabilizer tableaux over the same columns
\* yields a generating set of exactly the intersection of the two
\* stabilizer groups, signs included.
C16_JoinIsIntersection ==
    pc = "joined" =>
        GroupOf(JoinQubits, Rows(tab))
            = GroupOf(JoinQubits, Rows(tab_before)) \cap GroupOf(JoinQubits, Rows(case_tab))

\* C17: the summary built for a TailLoop has exactly 2 P + F columns (P the
\* qubit-typed pass-through values, F the qubit-typed loop-final outputs);
\* each pass-through qubit has an in_cols entry keyed by its input port on
\* the TailLoop node and an out_cols entry keyed by its output port, the two
\* columns coupled by identity rows; each loop-final output qubit has only
\* an out_cols entry; non-qubit values have no column.
C17_TailLoopSummaryLayout ==
    [][StepOf({"TailLoop"}) =>
          LET v == last'
              tl == as_tail_loop(g, v)
              nji == Len(tl.just_inputs)
              njo == Len(tl.just_outputs)
              P == {k \in 0..(Len(tl.rest) - 1) : tl.rest[k + 1] = "q"}
              F == {k \in 0..(njo - 1) : tl.just_outputs[k + 1] = "q"}
          IN /\ v \in DOMAIN analysis'.nested_analysis
             /\ LET summ == analysis'.nested_analysis[v]
                    n == summ.tab.nb_qubits
                IN /\ n = 2 * Cardinality(P) + Cardinality(F)
                   /\ DOMAIN summ.in_cols = {nji + k : k \in P}
                   /\ DOMAIN summ.out_cols = {njo + k : k \in P} \cup F
                   /\ Cardinality(Values(summ.in_cols) \cup Values(summ.out_cols)) = n
                   /\ \A k \in P :
                         LET c_in == summ.in_cols[nji + k]
                             c_out == summ.out_cols[njo + k]
                         IN /\ IdentityRow(n, "X", c_in, c_out) \in Rows(summ.tab)
                            /\ IdentityRow(n, "Z", c_in, c_out) \in Rows(summ.tab)]_vars

\* the columns of the call's qubit inputs and outputs after its step
CallInCols(a, v) == {a.internal_in_cols[<<v, g.qin[v][j]>>] : j \in 1..Len(g.qin[v])}
CallOutCols(a, v) ==
    UNION {{a.internal_out_cols[<<v, g.qout[v][j]>>], a.frontier_cols[Succ(g, v, g.qout[v][j])]} :
              j \in 1..Len(g.qout[v])}

\* C19: FunctionOpacity decides what a Call contributes.  Under Opaque the
\* call step adds no row relating the call's input columns to its output
\* columns and does not analyse the callee; under Boundary the caller gains
\* only the callee's input and output columns and no internal_in_cols or
\* internal_out_cols entry for a node inside the callee; under Inline the
\* caller retains the columns and the map entries of the callee's internal
\* nodes.
C19_FunctionOpacity ==
    [][StepOf({"Call"}) =>
          LET v == last'
              old == analysis.tab.nb_qubits
              internal == (DOMAIN analysis'.internal_in_cols)
                              \cup (DOMAIN analysis'.internal_out_cols)
          IN /\ pc' # "aborted"
             /\ fun_op = "Opaque" =>
                   /\ v \notin DOMAIN analysis'.nested_analysis
                   /\ nb_stabs(analysis'.tab) = nb_stabs(analysis.tab)
                   /\ \A row \in Rows(analysis'.tab) :
                         Support(row) \cap CallInCols(analysis', v) = {}
                            \/ Support(row) \cap CallOutCols(analysis', v) = {}
             /\ fun_op = "Boundary" =>
                   /\ v \in DOMAIN analysis'.nested_analysis
                   /\ analysis'.nested_analysis[v].tab.nb_qubits
                         = Len(g.qin[v]) + Len(g.qout[v])
                   /\ \A k \in internal : k[1] \in Nodes
             /\ fun_op = "Inline" =>
                   /\ v \in DOMAIN analysis'.nested_analysis
                   /\ LET fun_analysis == analysis'.nested_analysis[v]
                      IN /\ \A k \in DOMAIN fun_analysis.internal_in_cols :
                               /\ k \in DOMAIN analysis'.internal_in_cols
                               /\ analysis'.internal_in_cols[k]
                                     = fun_analysis.internal_in_cols[k] + old
                         /\ \A k \in DOMAIN fun_analysis.internal_out_cols :
                               /\ k \in DOMAIN analysis'.internal_out_cols
                               /\ analysis'.internal_out_cols[k]
                                     = fun_analysis.internal_out_cols[k] + old]_vars

\* the host regions whose hierarchical node has one Clifford-only body, each
\* paired with the region that has the body's gates in the host at the
\* node's position
Inlinings ==
    LET clifford == {b \in Bodies1 : \A j \in 1..Len(b) : b[j].op \in CliffordOps}
        pres == {<<>>, <<G("H", <<0>>)>>}
    IN {<<HostCall(pre, b), Build(<<"q">>, pre \o b)>> : pre \in pres, b \in clifford}
       \cup {<<HostConditional(pre, b, b), Build(<<"c", "q">>, pre \o b)>> :
                pre \in pres, b \in clifford}

\* the analysis after the step of node v, seen through the host's input
\* columns and the frontier columns published for v's outputs
ThroughNode(a, v) ==
    [tab |-> a.tab,
     in_cols |-> a.in_cols,
     out_cols |-> [p \in {g.qout[v][j] : j \in 1..Len(g.qout[v])} |->
                      a.frontier_cols[Succ(g, v, p)]]]

\* C20: sequential composition is equivalent to inlining.  When
\* apply_analysis has composed the analysis of a hierarchical node whose
\* nested region holds only Clifford gates, the stabilizer group restricted
\* to the host's input columns and the frontier columns of the node's
\* outputs is the group that analysing the host with the body's gates in
\* place of the node gives on its input and output columns.
C20_CompositionEqualsInlining ==
    [][\A pair \in Inlinings :
          (/\ StepOf(HierOps)
           /\ g = pair[1]
           /\ g.op[last'] = "Call" => fun_op # "Opaque") =>
             /\ pc' # "aborted"
             /\ \A r \in run_dfg(pair[2]) :
                   r.ok => ProjectedGroup(ThroughNode(analysis', last')) = ProjectedGroup(r.a)]_vars

(***************************************************************************)
(* SpecStack: the recursion of run_dfg over the hierarchy.  `g.fns` holds  *)
(* the function definitions of the module (run_dfg is called on the first) *)
(* as the node sequences of their bodies in the order the traversal visits *)
(* them; a Conditional holds the bodies of its Case children, a Call the   *)
(* index of the function its static input port is linked to.  `stack`      *)
(* holds one frame per call of run_dfg that has not returned: the body,    *)
(* the position of the node being processed, the positions with an entry   *)
(* in nested_analysis, and the cases run_conditional has analysed for the  *)
(* node at `pos`.                                                          *)
(***************************************************************************)
\* number of function definitions of the module
NFun == 2
\* longest body of a function
MaxBody == 2
\* frames the model follows the recursion for
MaxStack == 6

StackCall(k) == [op |-> "Call", fn |-> k]
StackCaseBodies ==
    {<<>>, <<[op |-> "Gate"]>>} \cup {<<StackCall(k)>> : k \in 0..(NFun - 1)}
StackNodes ==
    {[op |-> "Gate"], [op |-> "TailLoop"]}
    \cup {StackCall(k) : k \in 0..(NFun - 1)}
    \cup {[op |-> "Conditional", cases |-> <<b, <<>>>>] : b \in StackCaseBodies}
StackBodies == UNION {[1..n -> StackNodes] : n \in 0..MaxBody}

\* the levels of the hierarchy: Module, FuncDefn, the nodes of its body
\* (Input and Output at least), and below a Conditional its Case nodes and
\* their children
HierarchyDepth(hugr) ==
    IF \E k \in 1..Len(hugr.fns) : \E j \in 1..Len(hugr.fns[k]) :
          hugr.fns[k][j].op = "Conditional"
    THEN 5 ELSE 3

\* StabilizerDataflow::run_dfg(hugr, parent, fun_op) entered
Frame(body) == [body |-> body, pos |-> 1, nested |-> {}, cases_done |-> 0]

Top == stack[Len(stack)]
AtNode == pc = "run" /\ stack # <<>> /\ Top.pos <= Len(Top.body)
Cur == Top.body[Top.pos]
SetTop(f) == [stack EXCEPT ![Len(stack)] = f]
StackFrame == UNCHANGED <<g, done, last, analysis, fun_op, tab, tab_before, gate, case_tab>>

\* apply_quantum_gate / apply_opaque: no nested analysis (a Call under
\* FunctionOpacity::Opaque among them)
StackLeaf ==
    /\ AtNode
    /\ Cur.op = "Gate" \/ (Cur.op = "Call" /\ fun_op = "Opaque")
    /\ stack' = SetTop([Top EXCEPT !.pos = @ + 1])
    /\ pc' = pc
    /\ StackFrame

\* run_tail_loop: hugr.children(node).exactly_one().ok().unwrap() panics,
\* the children of a TailLoop being its Input, its Output and its body
StackTailLoop ==
    /\ AtNode
    /\ Cur.op = "TailLoop"
    /\ pc' = "aborted"
    /\ UNCHANGED stack
    /\ StackFrame

\* Call under Boundary or Inline: run_dfg on the function definition
StackEnterCall ==
    /\ AtNode
    /\ Cur.op = "Call" /\ fun_op # "Opaque"
    /\ Top.pos \notin Top.nested
    /\ Len(stack) < MaxStack
    /\ stack' = Append(stack, Frame(g.fns[Cur.fn + 1]))
    /\ pc' = pc
    /\ StackFrame

\* run_conditional: run_dfg on the next Case child
StackEnterCase ==
    /\ AtNode
    /\ Cur.op = "Conditional"
    /\ Top.cases_done < Len(Cur.cases)
    /\ Len(stack) < MaxStack
    /\ stack' = Append(stack, Frame(Cur.cases[Top.cases_done + 1]))
    /\ pc' = pc
    /\ StackFrame

\* the frame the returned analysis goes to: a Call stores it in
\* nested_analysis; run_conditional stores it in the summary and, after the
\* last case, run_dfg stores the summary
Store(f) ==
    LET node == f.body[f.pos]
    IN IF node.op = "Call" THEN [f EXCEPT !.nested = @ \cup {f.pos}]
       ELSE IF f.cases_done + 1 = Len(node.cases)
            THEN [f EXCEPT !.cases_done = @ + 1, !.nested = @ \cup {f.pos}]
            ELSE [f EXCEPT !.cases_done = @ + 1]

\* run_dfg returns its analysis: the traversal has yielded every node
StackReturn ==
    /\ pc = "run" /\ stack # <<>>
    /\ Top.pos > Len(Top.body)
    /\ IF Len(stack) = 1
       THEN pc' = "returned" /\ stack' = <<>>
       ELSE /\ pc' = pc
            /\ stack' = [k \in 1..(Len(stack) - 1) |->
                            IF k = Len(stack) - 1 THEN Store(stack[k]) ELSE stack[k]]
    /\ StackFrame

\* analysis.apply_analysis(hugr, node): frontier_cols.remove(..).unwrap()
\* panics on the port that carries no qubit (the discriminator of a
\* Conditional, the static function input of a Call)
StackCompose ==
    /\ AtNode
    /\ Cur.op \in {"Call", "Conditional"}
    /\ Top.pos \in Top.nested
    /\ pc' = "aborted"
    /\ UNCHANGED stack
    /\ StackFrame

InitStack ==
    /\ g \in {[fns |-> f] : f \in [1..NFun -> StackBodies]}
    /\ fun_op \in FunctionOpacity
    /\ done = {}
    /\ last = 0
    /\ pc = "run"
    /\ analysis = empty_analysis
    /\ tab = TableauNew(0)
    /\ tab_before = TableauNew(0)
    /\ gate = [op |-> "none", qs |-> <<>>]
    /\ case_tab = TableauNew(0)
    /\ stack = <<Frame(g.fns[1])>>

NextStack ==
    \/ StackLeaf
    \/ StackTailLoop
    \/ StackEnterCall
    \/ StackEnterCase
    \/ StackReturn
    \/ StackCompose

SpecStack == InitStack /\ [][NextStack]_vars

\* C21: the number of region analyses nested on the stack never exceeds the
\* hierarchy depth of the graph, and a parent composes a child's analysis
\* only after the child has finished and its analysis is stored in the
\* parent's nested_analysis; the run ends by returning or aborting.
C21_StackWithinHierarchyDepth ==
    [][/\ Len(stack') <= HierarchyDepth(g)
       /\ (pc' = "aborted" /\ Cur.op # "TailLoop") => Top.pos \in Top.nested]_vars

(***************************************************************************)
(* Properties of the traversal on any region (SpecAny)                     *)
(***************************************************************************)
\* a qubit input port of node v without a frontier entry, or a qubit output
\* port of v without a unique successor
MissingAt(v) ==
    \/ \E j \in 1..Len(g.qin[v]) : <<v, g.qin[v][j]>> \notin DOMAIN analysis.frontier_cols
    \/ NoUniqueSuccessor(g, v)

\* run_dfg takes the step of node v
StepAt(v) == pc = "run" /\ last' = v /\ <<done, pc>>' # <<done, pc>>

\* C22: a region without a unique Input sentinel aborts the analysis, and
\* so does the step of a node that has no frontier entry for one of its
\* qubit input ports or a qubit output port without a unique successor: no
\* summary is returned and the traversal does not go on.
C22_MalformedAborts ==
    /\ InputCount(g) # 1 => pc = "aborted"
    /\ [][\A v \in Nodes : (StepAt(v) /\ MissingAt(v)) => (pc' = "aborted" /\ done' = done)]_vars

(***************************************************************************)
(* SpecRows: row multiplication, row-echelon reduction and projection of   *)
(* a tableau held as a sequence of rows (z, x, sign).  tableau.rs holds    *)
(* none of the three; PauliProduct::pauli_product_mult is called by        *)
(* TableauColumnMajor::prepend_v, prepend_s and prepend_cx.  `tab` is      *)
(* [nb_qubits, rows]; a coordinate is <<q, is_x>>.                         *)
(***************************************************************************)
\* most columns / rows of the tableau drawn at Init
MaxRowQubits == 2
MaxRowRows == 2

Coord(row, c) == IF c[2] THEN row.x[c[1]] ELSE row.z[c[1]]

\* the product of rows r1 and r2 with the phase bit coeff: z and x are
\* XORed; the sign is the XOR of the two signs, of the parity of the
\* positions where r1 has X and r2 has Z but not the reverse, and of coeff
\* modulo 2
pauli_product_mult(r1, r2, coeff) ==
    LET correction == Cardinality({q \in DOMAIN r1.z :
                          (r1.x[q] /\ r2.z[q]) /\ ~(r1.z[q] /\ r2.x[q])}) % 2
    IN [z |-> [q \in DOMAIN r1.z |-> r1.z[q] # r2.z[q]],
        x |-> [q \in DOMAIN r1.x |-> r1.x[q] # r2.x[q]],
        sign |-> (r1.sign # r2.sign) # ((correction + coeff) % 2 = 1)]

\* row_mult(rr, rw, coeff): row[rw] becomes the product, in place
row_mult(t, rr, rw, coeff) ==
    [t EXCEPT !.rows[rw] = pauli_product_mult(t.rows[rr], t.rows[rw], coeff)]

\* the pivot row moves to the pivot position p, the row that was there
\* takes its place
move_row(rows, r, p) ==
    [k \in DOMAIN rows |-> IF k = p THEN rows[r] ELSE IF k = r THEN rows[p] ELSE rows[k]]

\* elimination in the rows below the pivot row only
eliminate_below(t, p, c) ==
    [t EXCEPT !.rows = [k \in DOMAIN t.rows |->
        IF k > p /\ Coord(t.rows[k], c)
        THEN pauli_product_mult(t.rows[p], t.rows[k], 0)
        ELSE t.rows[k]]]

\* coordinate c is eliminated from every row other than the pivot row p
eliminate(t, p, c) ==
    [t EXCEPT !.rows = [k \in DOMAIN t.rows |->
        IF k # p /\ Coord(t.rows[k], c)
        THEN pauli_product_mult(t.rows[p], t.rows[k], 0)
        ELSE t.rows[k]]]

\* echelon(col_order), from the i-th coordinate on with piv pivots placed
RECURSIVE echelon_from(_, _, _, _)
echelon_from(t, col_order, i, piv) ==
    IF i > Len(col_order) THEN [t |-> t, piv |-> piv]
    ELSE LET c == col_order[i]
             cand == {r \in (piv + 1)..Len(t.rows) : Coord(t.rows[r], c)}
         IN IF cand = {} THEN echelon_from(t, col_order, i + 1, piv)
            ELSE LET r == CHOOSE y \in cand : \A y2 \in cand : y <= y2
                     moved == [t EXCEPT !.rows = move_row(@, r, piv + 1)]
                 IN echelon_from(eliminate(moved, piv + 1, c), col_order, i + 1, piv + 1)

echelon(t, col_order) == echelon_from(t, col_order, 1, 0).t

\* project(cols): echelon(cols), then every row that keeps a 1 in one of
\* the coordinates goes
project(t, cols) ==
    LET e == echelon(t, cols)
    IN [e EXCEPT !.rows = SelectSeq(@, LAMBDA row :
                              \A j \in 1..Len(cols) : ~Coord(row, cols[j]))]

RowsOf(t) == {t.rows[k] : k \in 1..Len(t.rows)}

\* the tableaux drawn at Init: at most maxrows rows on at most maxqubits
\* columns that pairwise commute and do not generate -I
RowInputs(maxqubits, maxrows) ==
    {t \in UNION {{[nb_qubits |-> n, rows |-> rs] :
                     rs \in [1..R -> [z : [0..(n - 1) -> BOOLEAN],
                                      x : [0..(n - 1) -> BOOLEAN],
                                      sign : BOOLEAN]]} :
                  <<n, R>> \in (1..maxqubits) \X (0..maxrows)} :
        /\ \A r1, r2 \in RowsOf(t) : Commute(r1, r2)
        /\ PauliNeg(PauliI(t.nb_qubits)) \notin GroupOf(t.nb_qubits, RowsOf(t))}

Coords(n) == (0..(n - 1)) \X BOOLEAN
\* sequences of distinct coordinates
CoordOrders(n) ==
    {<<>>} \cup {<<c>> : c \in Coords(n)}
    \cup {o \in {<<c1, c2>> : c1 \in Coords(n), c2 \in Coords(n)} : o[1] # o[2]}

RowsFrame == UNCHANGED <<g, done, last, analysis, fun_op, case_tab, stack>>

RowMult(rr, rw, coeff) ==
    /\ pc = "rows"
    /\ pc' = "applied"
    /\ tab' = row_mult(tab, rr, rw, coeff)
    /\ tab_before' = tab
    /\ gate' = [op |-> "row_mult", rr |-> rr, rw |-> rw, coeff |-> coeff]
    /\ RowsFrame

Echelon(col_order) ==
    /\ pc = "rows"
    /\ pc' = "applied"
    /\ tab' = echelon(tab, col_order)
    /\ tab_before' = tab
    /\ gate' = [op |-> "echelon", cols |-> col_order]
    /\ RowsFrame

Project(cols) ==
    /\ pc = "rows"
    /\ pc' = "applied"
    /\ tab' = project(tab, cols)
    /\ tab_before' = tab
    /\ gate' = [op |-> "project", cols |-> cols]
    /\ RowsFrame

InitRows ==
    /\ g = Build(<<>>, <<>>)
    /\ done = {}
    /\ last = 0
    /\ pc = "rows"
    /\ analysis = new(g)
    /\ fun_op = "Opaque"
    /\ tab \in RowInputs(MaxRowQubits, MaxRowRows)
    /\ tab_before = tab
    /\ gate = [op |-> "none"]
    /\ case_tab = TableauNew(0)
    /\ stack = <<>>

NextRows ==
    \/ \E rr, rw \in 1..Len(tab.rows) : \E coeff \in 0..3 :
          rr # rw /\ RowMult(rr, rw, coeff)
    \/ \E col_order \in CoordOrders(tab.nb_qubits) : Echelon(col_order)
    \/ \E cols \in CoordOrders(tab.nb_qubits) : Project(cols)

SpecRows == InitRows /\ [][NextRows]_vars

\* C25: for two commuting rows row_mult(rr, rw, coeff) leaves every row
\* other than rw (row rr among them) as it was, and row rw becomes the
\* Pauli product row[rr] * row[rw]: z and x are the XOR of the two rows and,
\* for coeff = 0, the sign is that of the true product with Y = iXZ (XX
\* times ZZ is -YY); coeff adds its value modulo 2 to the sign.
C25_RowMultIsPauliProduct ==
    (pc = "applied" /\ gate.op = "row_mult") =>
        LET r1 == tab_before.rows[gate.rr]
            r2 == tab_before.rows[gate.rw]
            product == PauliToRow(PauliMul(RowToPauli(r1), RowToPauli(r2)))
        IN /\ Len(tab.rows) = Len(tab_before.rows)
           /\ \A k \in 1..Len(tab.rows) : k # gate.rw => tab.rows[k] = tab_before.rows[k]
           /\ tab.rows[gate.rw].z = product.z
           /\ tab.rows[gate.rw].x = product.x
           /\ tab.rows[gate.rw].sign = (product.sign # (gate.coeff % 2 = 1))

\* the (z, x) bit vectors of the products of the rows of t, signs dropped
BitSpan(t) == {[z |-> p.z, x |-> p.x] : p \in GroupOf(t.nb_qubits, RowsOf(t))}

\* the number of distinct restrictions of the products of the rows of t to
\* the first i coordinates of cs: 2 to the GF(2) rank of the rows there
RestrictedCount(t, cs, i) ==
    Cardinality({[j \in 1..i |-> Coord(p, cs[j])] : p \in BitSpan(t)})

\* the positions of cs at which the rank of the rows of t grows: the
\* coordinates a Gaussian elimination in the order cs takes as pivots
PivotPositions(t, cs) ==
    {i \in 1..Len(cs) : RestrictedCount(t, cs, i) > RestrictedCount(t, cs, i - 1)}

EchelonDone == pc = "applied" /\ gate.op = "echelon"

\* C24 as stated: echelon(col_order) keeps the number of rows, leaves the
\* k-th coordinate taken as a pivot set to 1 in row k and in no other row,
\* and leaves every coordinate that col_order does not list unchanged in
\* every row.
C24_EchelonFrame ==
    EchelonDone =>
        LET piv == PivotPositions(tab_before, gate.cols)
            listed == {gate.cols[j] : j \in 1..Len(gate.cols)}
        IN /\ Len(tab.rows) = Len(tab_before.rows)
           /\ \A i \in piv :
                 {r \in 1..Len(tab.rows) : Coord(tab.rows[r], gate.cols[i])}
                     = {Cardinality({j \in piv : j <= i})}
           /\ \A c \in Coords(tab.nb_qubits) \ listed : \A r \in 1..Len(tab.rows) :
                 Coord(tab.rows[r], c) = Coord(tab_before.rows[r], c)

\* C24 amended: echelon(col_order) keeps the number of rows, leaves the k-th
\* coordinate taken as a pivot set to 1 in row k and in no other row, and
\* leaves the GF(2) span of the rows' (z, x) bit vectors unchanged.
C24_EchelonReduces ==
    EchelonDone =>
        LET piv == PivotPositions(tab_before, gate.cols)
        IN /\ Len(tab.rows) = Len(tab_before.rows)
           /\ \A i \in piv :
                 {r \in 1..Len(tab.rows) : Coord(tab.rows[r], gate.cols[i])}
                     = {Cardinality({j \in piv : j <= i})}
           /\ BitSpan(tab) = BitSpan(tab_before)

\* two pivots were taken and a coordinate that col_order does not list
\* changed in some row
C24_Witness ==
    /\ EchelonDone
    /\ Cardinality(PivotPositions(tab_before, gate.cols)) = 2
    /\ \E c \in Coords(tab.nb_qubits) \ {gate.cols[j] : j \in 1..Len(gate.cols)} :
          \E r \in 1..Len(tab.rows) : Coord(tab.rows[r], c) # Coord(tab_before.rows[r], c)

ProjectDone == pc = "applied" /\ gate.op = "project"

\* the products of the rows of t that are 0 on every coordinate of cs
ZeroOn(t, cs) ==
    {p \in GroupOf(t.nb_qubits, RowsOf(t)) : \A j \in 1..Len(cs) : ~Coord(p, cs[j])}

\* C23: after project(cols) no remaining row has a 1 in a coordinate of
\* cols, the remaining rows generate exactly the subgroup of the original
\* stabilizer group whose elements are 0 on every coordinate of cols (signs
\* included), and the number of rows removed is the GF(2) rank of the
\* original rows restricted to cols.
C23_ProjectIsSubgroup ==
    ProjectDone =>
        /\ \A r \in 1..Len(tab.rows) : \A j \in 1..Len(gate.cols) :
              ~Coord(tab.rows[r], gate.cols[j])
        /\ GroupOf(tab.nb_qubits, RowsOf(tab)) = ZeroOn(tab_before, gate.cols)
        /\ Len(tab_before.rows) - Len(tab.rows)
              = Cardinality(PivotPositions(tab_before, gate.cols))

(***************************************************************************)
(* Further properties of the traversal (Spec)                              *)
(***************************************************************************)
\* the step of a hierarchical node that composes a nested analysis
ComposeStep ==
    StepOf(HierOps) /\ (g.op[last'] = "Call" => fun_op # "Opaque")

QPorts(ports) == {ports[j] : j \in 1..Len(ports)}

\* C26: composition at a hierarchical node h removes the frontier entry of
\* each qubit-typed input port of h and of no other port, and allocates the
\* pair (c_internal_out, c_front) for each qubit-typed output port of h and
\* for no other port; the non-qubit ports (a Conditional's discriminator, a
\* TailLoop's non-qubit values, a Call's static function input) are skipped
\* and do not make the analysis abort.
C26_CompositionSkipsNonQubitPorts ==
    [][ComposeStep =>
          LET h == last'
              nested == analysis'.nested_analysis[h]
          IN /\ pc' # "aborted"
             /\ (DOMAIN analysis.frontier_cols) \ (DOMAIN analysis'.frontier_cols)
                   = {<<h, p>> : p \in QPorts(g.qin[h])}
             /\ {k \in DOMAIN analysis'.internal_in_cols : k[1] = h}
                   = {<<h, p>> : p \in QPorts(g.qin[h])}
             /\ {k \in DOMAIN analysis'.internal_out_cols : k[1] = h}
                   = {<<h, p>> : p \in QPorts(g.qout[h])}
             /\ analysis'.tab.nb_qubits
                   = analysis.tab.nb_qubits + nested.tab.nb_qubits + 2 * Len(g.qout[h])]_vars

\* C27: when the Output sentinel step runs, every frontier entry it moves to
\* out_cols is keyed by the Output node, and out_cols[p] is the column in
\* flight on the edge into Output port p; in every order the topological
\* iterator can produce, a QFree or MeasureFree after the Output included.
C27_OutputMovesOwnEntries ==
    [][StepOf({"Output"}) =>
          /\ \A k \in DOMAIN analysis.frontier_cols :
                k[2] \in DOMAIN analysis'.out_cols => k[1] = OutputNode
          /\ \A p \in OutputQPorts :
                /\ <<OutputNode, p>> \in DOMAIN analysis.frontier_cols
                /\ p \in DOMAIN analysis'.out_cols
                /\ analysis'.out_cols[p] = analysis.frontier_cols[<<OutputNode, p>>]]_vars

\* the column maps apply_analysis copies into
CopiedMaps == {"nested_in_cols", "nested_out_cols", "internal_in_cols", "internal_out_cols"}

\* the host held everything of a before the composition at h, and still
\* does in b: rows with zeros in the new columns, map entries as they were
HostKept(a, b, h) ==
    LET N == a.tab.nb_qubits
        added == b.nested_analysis[h].tab.nb_qubits
    IN /\ \A r \in 0..(nb_stabs(a.tab) - 1) :
             LET old == stabs_get(a.tab, r)
                 row == stabs_get(b.tab, r)
             IN /\ row.sign = old.sign
                /\ \A q \in 0..(N - 1) : row.z[q] = old.z[q] /\ row.x[q] = old.x[q]
                /\ \A q \in N..(N + added - 1) : ~row.z[q] /\ ~row.x[q]
       /\ \A m \in CopiedMaps \cup {"in_cols", "out_cols"} :
             \A k \in DOMAIN a[m] : k \in DOMAIN b[m] /\ b[m][k] = a[m][k]

\* every column and row of the nested analysis of h is in b, shifted by N
NestedRecorded(a, b, h) ==
    LET N == a.tab.nb_qubits
        nested == b.nested_analysis[h]
    IN /\ \A p \in DOMAIN nested.in_cols :
             /\ <<h, p>> \in DOMAIN b.nested_in_cols
             /\ b.nested_in_cols[<<h, p>>] = nested.in_cols[p] + N
       /\ \A p \in DOMAIN nested.out_cols :
             /\ <<h, p>> \in DOMAIN b.nested_out_cols
             /\ b.nested_out_cols[<<h, p>>] = nested.out_cols[p] + N
       /\ \A m \in CopiedMaps : \A k \in DOMAIN nested[m] :
             k \in DOMAIN b[m] /\ b[m][k] = nested[m][k] + N
       /\ \A i \in 0..(nb_stabs(nested.tab) - 1) :
             LET src == stabs_get(nested.tab, i)
                 row == stabs_get(b.tab, nb_stabs(a.tab) + i)
             IN /\ row.sign = src.sign
                /\ \A q \in 0..(N - 1) : ~row.z[q] /\ ~row.x[q]
                /\ \A q \in 0..(nested.tab.nb_qubits - 1) :
                      row.z[N + q] = src.z[q] /\ row.x[N + q] = src.x[q]

\* C28: composing a nested analysis A' at node h when the host tableau has
\* N columns changes nothing the host already held (existing rows get only
\* zeros in the new columns, no existing map entry is overwritten), every
\* column of A' is recorded in the host as its A' index plus N, and every
\* row of A' appears with its bits shifted by N and zeros below N; the
\* composition completes, so that a second Call finds the first recorded.
C28_CompositionFrame ==
    [][ComposeStep =>
          /\ pc' # "aborted"
          /\ last' \in DOMAIN analysis'.nested_analysis
          /\ HostKept(analysis, analysis', last')
          /\ NestedRecorded(analysis, analysis', last')]_vars

\* every column of t holds one bit per row, and the z and x parts have one
\* column per qubit: each row has width nb_qubits
RowsHaveWidth(t) ==
    /\ DOMAIN t.z = 0..(t.nb_qubits - 1)
    /\ DOMAIN t.x = 0..(t.nb_qubits - 1)
    /\ \A q \in 0..(t.nb_qubits - 1) :
          BvLen(t.z[q]) = nb_stabs(t) /\ BvLen(t.x[q]) = nb_stabs(t)

\* C29: after initialisation and after every node step every row of the
\* tableau has width nb_qubits and all rows pairwise commute.
C29_RowsCommute ==
    pc \in {"run", "returned"} =>
        /\ RowsHaveWidth(analysis.tab)
        /\ \A r1, r2 \in Rows(analysis.tab) : Commute(r1, r2)

(***************************************************************************)
(* SpecCirc: Tableau::to_circ.  `tab` starts as Tableau::new(n) and is     *)
(* changed by the append_* methods; ToCirc calls tab.to_circ(inverse) and  *)
(* leaves the returned gate list (or the panic) in `gate`.                 *)
(***************************************************************************)
\* most qubits of the tableau given to to_circ
MaxCircQubits == 2

\* tab.append_*(..); c.push((op, qs))
Emit(s, op, qs) ==
    [s EXCEPT !.tab = clifford_append(s.tab, op, qs), !.c = Append(s.c, G(op, qs))]

\* iter().position(|v| v.get(i)) over the columns of v
Position(v, n, i) ==
    IF \E j \in 0..(n - 1) : v[j][i]
    THEN CHOOSE j \in 0..(n - 1) : v[j][i] /\ \A j2 \in 0..(j - 1) : ~v[j2][i]
    ELSE -1

\* lines 101-106, from column j on
RECURSIVE to_circ_x_loop(_, _, _, _)
to_circ_x_loop(s, i, index, j) ==
    IF j >= s.tab.nb_qubits THEN s
    ELSE to_circ_x_loop(IF s.tab.x[j][i] /\ j # index THEN Emit(s, "CX", <<index, j>>) ELSE s,
                        i, index, j + 1)

\* lines 100-113
to_circ_x(s, i) ==
    LET index == Position(s.tab.x, s.tab.nb_qubits, i)
    IN IF index = -1 THEN s
       ELSE LET s1 == to_circ_x_loop(s, i, index, i + 1)
                s2 == IF s1.tab.z[index][i] THEN Emit(s1, "S", <<index>>) ELSE s1
            IN Emit(s2, "H", <<index>>)

\* lines 114-118: the unwrap panics when no column has a Z in row i
to_circ_pivot(s, i) ==
    IF s.tab.z[i][i] THEN s
    ELSE LET index == Position(s.tab.z, s.tab.nb_qubits, i)
         IN IF index = -1 THEN [s EXCEPT !.ok = FALSE]
            ELSE Emit(s, "CX", <<i, index>>)

\* lines 119-124, from column j on
RECURSIVE to_circ_z_loop(_, _, _)
to_circ_z_loop(s, i, j) ==
    IF j >= s.tab.nb_qubits THEN s
    ELSE to_circ_z_loop(IF s.tab.z[j][i] /\ j # i THEN Emit(s, "CX", <<j, i>>) ELSE s,
                        i, j + 1)

\* lines 125-130, from column j on
RECURSIVE to_circ_dx_loop(_, _, _)
to_circ_dx_loop(s, i, j) ==
    IF j >= s.tab.nb_qubits THEN s
    ELSE to_circ_dx_loop(IF s.tab.x[j][i + s.tab.nb_qubits] /\ j # i
                         THEN Emit(s, "CX", <<i, j>>) ELSE s,
                         i, j + 1)

\* lines 131-140, from column j on
RECURSIVE to_circ_dz_loop(_, _, _)
to_circ_dz_loop(s, i, j) ==
    IF j >= s.tab.nb_qubits THEN s
    ELSE to_circ_dz_loop(IF s.tab.z[j][i + s.tab.nb_qubits] /\ j # i
                         THEN Emit(Emit(Emit(s, "CX", <<i, j>>), "S", <<j>>), "CX", <<i, j>>)
                         ELSE s,
                         i, j + 1)

\* lines 141-152
to_circ_fix(s, i) ==
    LET n == s.tab.nb_qubits
        s1 == IF s.tab.z[i][i + n] THEN Emit(s, "S", <<i>>) ELSE s
        s2 == IF s1.tab.signs[i] THEN Emit(s1, "X", <<i>>) ELSE s1
    IN IF s2.tab.signs[i + n] THEN Emit(s2, "Z", <<i>>) ELSE s2

\* lines 99-153: the body of the loop for i, then the following ones
RECURSIVE to_circ_loop(_, _)
to_circ_loop(s, i) ==
    IF i >= s.tab.nb_qubits \/ ~s.ok THEN s
    ELSE LET s1 == to_circ_pivot(to_circ_x(s, i), i)
         IN IF ~s1.ok THEN s1
            ELSE to_circ_loop(
                     to_circ_fix(to_circ_dz_loop(to_circ_dx_loop(to_circ_z_loop(s1, i, 0), i, 0),
                                                 i, 0), i),
                     i + 1)

\* the list reversed, no Z pushed after an S
to_circ_reversed_without_z(c) == [j \in 1..Len(c) |-> c[Len(c) + 1 - j]]

\* lines 154-161: the list reversed, a Z pushed after every S
RECURSIVE to_circ_reversed(_)
to_circ_reversed(c) ==
    IF c = <<>> THEN <<>>
    ELSE LET gt == c[Len(c)]
         IN (IF gt.op = "S" THEN <<gt, G("Z", gt.ls)>> ELSE <<gt>>)
            \o to_circ_reversed(SubSeq(c, 1, Len(c) - 1))

\* to_circ(&self, inverse): [ok, c], ok = FALSE when the unwrap panicked
to_circ(t, inverse) ==
    LET s == to_circ_loop([tab |-> t, c |-> <<>>, ok |-> TRUE], 0)
    IN [ok |-> s.ok, c |-> IF ~s.ok THEN <<>> ELSE IF inverse THEN s.c ELSE to_circ_reversed(s.c)]

\* the append_* methods of Tableau
AppendOps == {"X", "Z", "S", "V", "H", "CX", "CZ"}

CircFrame == UNCHANGED <<g, done, last, analysis, fun_op, case_tab, stack>>

CircAppend(op, qs) ==
    /\ pc = "circ"
    /\ tab' = clifford_append(tab, op, qs)
    /\ UNCHANGED <<pc, tab_before, gate>>
    /\ CircFrame

ToCirc(inverse) ==
    /\ pc = "circ"
    /\ pc' = "circ_done"
    /\ gate' = [op |-> "to_circ", inverse |-> inverse] @@ to_circ(tab, inverse)
    /\ UNCHANGED <<tab, tab_before>>
    /\ CircFrame

InitCirc ==
    /\ g = Build(<<>>, <<>>)
    /\ done = {}
    /\ last = 0
    /\ pc = "circ"
    /\ analysis = new(g)
    /\ fun_op = "Opaque"
    /\ \E n \in 1..MaxCircQubits : tab = TableauNew(n)
    /\ tab_before = TableauNew(0)
    /\ gate = [op |-> "none"]
    /\ case_tab = TableauNew(0)
    /\ stack = <<>>

NextCirc ==
    \/ \E op \in AppendOps :
          \E qs \in ArgTuples(0..(tab.nb_qubits - 1), Arity(op)) : CircAppend(op, qs)
    \/ \E inverse \in BOOLEAN : ToCirc(inverse)

SpecCirc == InitCirc /\ [][NextCirc]_vars

\* C30: for every tableau T reached from Tableau::new(n) by append_x,
\* append_z, append_s, append_v, append_h, append_cx and append_cz,
\* to_circ does not panic, appending the gates of T.to_circ(true) in order
\* to T gives Tableau::new(n), and appending the gates of T.to_circ(false)
\* in order to Tableau::new(n) gives T.
C30_ToCircRoundTrip ==
    pc = "circ_done" =>
        /\ gate.ok
        /\ gate.inverse => AppendAll(tab, gate.c) = TableauNew(tab.nb_qubits)
        /\ ~gate.inverse => AppendAll(TableauNew(tab.nb_qubits), gate.c) = tab
        /\ gate.inverse =>
              AppendAll(AppendAll(tab, gate.c), to_circ(tab, FALSE).c) = tab

\* to_circ(false) returned a list for a tableau on two qubits that holds a
\* CX, an H, and an S with the Z pushed after it
C30_Witness ==
    /\ pc = "circ_done"
    /\ gate.ok
    /\ ~gate.inverse
    /\ tab.nb_qubits = 2
    /\ \E j \in 1..Len(gate.c) : gate.c[j].op = "CX"
    /\ \E j \in 1..Len(gate.c) : gate.c[j].op = "H"
    /\ \E j \in 1..(Len(gate.c) - 1) : gate.c[j].op = "S" /\ gate.c[j + 1].op = "Z"
    /\ AppendAll(TableauNew(2), gate.c) = tab

====
